---------------------------- MODULE Spec2Model ----------------------------
(***************************************************************************)
(* A model of the jsonpath package (src/jsonpath.go): the path compiler    *)
(* (tokenize, parse_token, Compile), the evaluator (Lookup and the step    *)
(* helpers get_key, get_idx, get_range, get_filtered) and the mutation     *)
(* engine (Set).                                                           *)
(*                                                                         *)
(* Go strings are sequences of one-character strings.  Go values of type   *)
(* interface{} are tagged records; maps and slice backing arrays live in   *)
(* a heap so that aliasing is the one Go has: a map value is a reference,  *)
(* a slice value is a (backing array, offset, length) header.  A Go panic  *)
(* is the error value Panic, which every caller passes on.                 *)
(***************************************************************************)
EXTENDS Integers, Sequences, FiniteSets, TLC

VARIABLES
    path,       \* SpecCompile: the path text handed to Compile
    compiled,   \* SpecCompile: what Compile returned for it
    heap,       \* the Go heap: maps and backing arrays
    root,       \* the document: the value the caller holds
    last,       \* the last operation run on the document and its outcome
    nops,       \* operations run so far
    fin,        \* SpecEval: the inputs of the helper under test
    fout,       \* SpecEval: what the helper returned
    cpc,        \* SpecLookup: per caller, the next step of the program
    ccur,       \* SpecLookup: per caller, the cursor obj
    cres        \* SpecLookup: per caller, the returned (value, error)

vars == <<path, compiled, heap, root, last, nops, fin, fout, cpc, ccur, cres>>

\* F applied to the value of x, which is computed a single time however
\* often F refers to it
Once(x, F(_)) == CHOOSE y \in {F(v) : v \in {x}} : TRUE

-----------------------------------------------------------------------------
(* Errors.                                                                 *)

NoErr == [k |-> "nil"]
Err(msg) == [k |-> "error", msg |-> msg]
NotExist(key) == [k |-> "NotExist", key |-> key]
ErrGetFromNullObj == [k |-> "ErrGetFromNullObj"]
\* a run-time panic: not an error value; it unwinds every caller
Panic(msg) == [k |-> "panic", msg |-> msg]
IsPanic(e) == e.k = "panic"
IsErr(e) == e.k # "nil"

-----------------------------------------------------------------------------
(* Strings: sequences of characters.                                       *)

Digits == <<"0", "1", "2", "3", "4", "5", "6", "7", "8", "9">>
IsDigit(c) == \E i \in 1..10 : Digits[i] = c
DigitVal(c) == (CHOOSE i \in 1..10 : Digits[i] = c) - 1

\* strings.Index(s, c) for a one-character c, 0-based, -1 when absent
Index(s, c) ==
    IF \E i \in 1..Len(s) : s[i] = c
    THEN (CHOOSE i \in 1..Len(s) : s[i] = c /\ \A j \in 1..(i-1) : s[j] # c) - 1
    ELSE -1

\* strings.LastIndex(s, c)
LastIndex(s, c) ==
    IF \E i \in 1..Len(s) : s[i] = c
    THEN (CHOOSE i \in 1..Len(s) : s[i] = c /\ \A j \in (i+1)..Len(s) : s[j] # c) - 1
    ELSE -1

Contains(s, c) == \E i \in 1..Len(s) : s[i] = c

\* Go's s[a:b] with 0-based half-open bounds (the caller checks the bounds)
Slice(s, a, b) == SubSeq(s, a + 1, b)

HasPrefix(s, p) == Len(s) >= Len(p) /\ SubSeq(s, 1, Len(p)) = p
HasSuffix(s, p) == Len(s) >= Len(p) /\ SubSeq(s, Len(s) - Len(p) + 1, Len(s)) = p

RECURSIVE TrimLeft(_)
TrimLeft(s) == IF s # <<>> /\ Head(s) = " " THEN TrimLeft(Tail(s)) ELSE s
RECURSIVE TrimRight(_)
TrimRight(s) ==
    IF s # <<>> /\ s[Len(s)] = " " THEN TrimRight(SubSeq(s, 1, Len(s) - 1)) ELSE s
\* strings.Trim(s, " "); strings.TrimSpace on the characters modelled
Trim(s) == TrimRight(TrimLeft(s))

\* strings.Split(s, sep) for a one-character sep
RECURSIVE Split(_, _)
Split(s, sep) ==
    LET i == Index(s, sep)
    IN IF i < 0 THEN <<s>>
       ELSE <<Slice(s, 0, i)>> \o Split(Slice(s, i + 1, Len(s)), sep)

RECURSIVE DecVal(_)
DecVal(s) == IF s = <<>> THEN 0
             ELSE 10 * DecVal(SubSeq(s, 1, Len(s) - 1)) + DigitVal(s[Len(s)])

\* strconv.Atoi: an optional sign and one or more decimal digits
Atoi(s) ==
    LET body == IF s # <<>> /\ Head(s) \in {"+", "-"} THEN Tail(s) ELSE s
    IN IF body = <<>> \/ \E i \in 1..Len(body) : ~IsDigit(body[i])
       THEN [ok |-> FALSE, n |-> 0]
       ELSE [ok |-> TRUE,
             n |-> IF Head(s) = "-" THEN 0 - DecVal(body) ELSE DecVal(body)]

-----------------------------------------------------------------------------
(* The compiler: tokenize, parse_token, Compile.                           *)

LastTok(tokens) == tokens[Len(tokens)]

\* the loop of tokenize with a group closed by any ], escaped or not
RECURSIVE tokenizeLoopAnyClose(_, _, _, _)
tokenizeLoopAnyClose(query, i, tokens, token0) ==
    IF i > Len(query) THEN [tokens |-> tokens, token |-> token0, err |-> NoErr]
    ELSE
    LET x == query[i]
        token == Append(token0, x)
    IN  IF i = 1 THEN
            IF token = <<"$">> \/ token = <<"@">>
            THEN tokenizeLoopAnyClose(query, i + 1, Append(tokens, token), <<>>)
            ELSE [tokens |-> <<>>, token |-> <<>>,
                  err |-> Err("should start with '$'")]
        ELSE IF token = <<".">> THEN tokenizeLoopAnyClose(query, i + 1, tokens, token)
        ELSE IF token = <<".", ".">> THEN
            tokenizeLoopAnyClose(query, i + 1,
                         IF LastTok(tokens) # <<"*">>
                         THEN Append(tokens, <<"*">>) ELSE tokens,
                         <<".">>)
        ELSE IF Contains(token, "[") THEN
            IF x = "]"
            THEN tokenizeLoopAnyClose(query, i + 1,
                              Append(tokens, IF token[1] = "." THEN Tail(token)
                                             ELSE token),
                              <<>>)
            ELSE tokenizeLoopAnyClose(query, i + 1, tokens, token)
        ELSE IF x = "."
            THEN tokenizeLoopAnyClose(query, i + 1,
                              Append(tokens,
                                     IF token[1] = "."
                                     THEN Slice(token, 1, Len(token) - 1)
                                     ELSE Slice(token, 0, Len(token) - 1)),
                              <<".">>)
            ELSE tokenizeLoopAnyClose(query, i + 1, tokens, token)

\* the loop of tokenize from character i (1-based) on, with tokens and token
\* as the loop has them
RECURSIVE tokenizeLoop(_, _, _, _)
tokenizeLoop(query, i, tokens, token0) ==
    IF i > Len(query) THEN [tokens |-> tokens, token |-> token0, err |-> NoErr]
    ELSE
    LET x == query[i]
        token == Append(token0, x)
    IN  IF i = 1 THEN
            IF token = <<"$">> \/ token = <<"@">>
            THEN tokenizeLoop(query, i + 1, Append(tokens, token), <<>>)
            ELSE [tokens |-> <<>>, token |-> <<>>,
                  err |-> Err("should start with '$'")]
        ELSE IF token = <<".">> THEN tokenizeLoop(query, i + 1, tokens, token)
        ELSE IF token = <<".", ".">> THEN
            tokenizeLoop(query, i + 1,
                         IF LastTok(tokens) # <<"*">>
                         THEN Append(tokens, <<"*">>) ELSE tokens,
                         <<".">>)
        ELSE IF Contains(token, "[") THEN
            IF x = "]" /\ ~HasSuffix(token, <<"\\", "]">>)
            THEN tokenizeLoop(query, i + 1,
                              Append(tokens, IF token[1] = "." THEN Tail(token)
                                             ELSE token),
                              <<>>)
            ELSE tokenizeLoop(query, i + 1, tokens, token)
        ELSE IF x = "."
            THEN tokenizeLoop(query, i + 1,
                              Append(tokens,
                                     IF token[1] = "."
                                     THEN Slice(token, 1, Len(token) - 1)
                                     ELSE Slice(token, 0, Len(token) - 1)),
                              <<".">>)
            ELSE tokenizeLoop(query, i + 1, tokens, token)

tokenize(query) ==
    Once(tokenizeLoop(query, 1, <<>>, <<>>), LAMBDA r :
        IF IsErr(r.err) THEN [tokens |-> <<>>, err |-> r.err]
        ELSE IF Len(r.token) > 0 THEN
            LET token == IF r.token[1] = "." THEN Tail(r.token) ELSE r.token
            IN  IF token # <<"*">> \/ LastTok(r.tokens) # <<"*">>
                THEN [tokens |-> Append(r.tokens, token), err |-> NoErr]
                ELSE [tokens |-> r.tokens, err |-> NoErr]
        ELSE [tokens |-> r.tokens, err |-> NoErr])

checkFilter(filter) ==
    HasPrefix(filter, <<"@", ".">>) \/ HasPrefix(filter, <<"$", ".">>)

\* step arguments: s.args is nil, a string, a []int or a [2]interface{}
ArgNil == [t |-> "nil"]
ArgStr(s) == [t |-> "string", s |-> s]
ArgInts(l) == [t |-> "ints", l |-> l]
OptNil == [t |-> "nil"]
OptInt(n) == [t |-> "int", n |-> n]
ArgRange(frm, to) == [t |-> "range", frm |-> frm, to |-> to]

Parsed(op, key, args, err) == [op |-> op, key |-> key, args |-> args, err |-> err]

\* expr[first+1 : last] of extractExpression and of the filter branch: Go
\* panics when the slice bounds are inverted
ParenInterior(tail) ==
    LET first == Index(tail, "(")
        last_ == LastIndex(tail, ")")
    IN  IF first = -1 \/ last_ = -1 THEN [found |-> FALSE, panic |-> FALSE, s |-> <<>>]
        ELSE IF first + 1 > last_ THEN [found |-> TRUE, panic |-> TRUE, s |-> <<>>]
        ELSE [found |-> TRUE, panic |-> FALSE, s |-> Trim(Slice(tail, first + 1, last_))]

extractExpression(expr) ==
    LET p == ParenInterior(expr)
    IN  [expr |-> p.s, ok |-> p.found /\ ~p.panic /\ checkFilter(p.s), panic |-> p.panic]

\* the range branch of parse_token: err is overwritten by the second Atoi
parseRange(key, tail) ==
    LET tails == Split(tail, ":")
    IN  IF Len(tails) # 2
        THEN Parsed("range", key, ArgNil, Err("only support one range(from, to)"))
        ELSE
        LET f == Atoi(Trim(tails[1]))
            t == Atoi(Trim(tails[2]))
            err == IF t.ok \/ Trim(tails[2]) = <<>> THEN NoErr
                   ELSE Err("strconv.Atoi: invalid syntax")
        IN  Parsed("range", key,
                   ArgRange(IF f.ok THEN OptInt(f.n) ELSE OptNil,
                            IF t.ok THEN OptInt(t.n) ELSE OptNil),
                   err)

RECURSIVE parseIdx(_, _)
parseIdx(pieces, res) ==
    IF pieces = <<>> THEN [ok |-> TRUE, l |-> res]
    ELSE LET a == Atoi(Trim(Head(pieces)))
         IN  IF a.ok THEN parseIdx(Tail(pieces), Append(res, a.n))
             ELSE [ok |-> FALSE, l |-> <<>>]

parse_token(token) ==
    IF token = <<"$">> THEN Parsed("root", <<"$">>, ArgNil, NoErr)
    ELSE IF token = <<"*">> THEN Parsed("scan", <<"*">>, ArgNil, NoErr)
    ELSE
    LET bracket_idx == Index(token, "[")
    IN  IF bracket_idx < 0 THEN Parsed("key", token, ArgNil, NoErr)
        ELSE
        LET key == Slice(token, 0, bracket_idx)
            tail0 == Slice(token, bracket_idx, Len(token))
        IN  IF Len(tail0) < 3
            THEN Parsed("", key, ArgNil, Err("len(tail) should >=3"))
            ELSE
            LET tail == Slice(tail0, 1, Len(tail0) - 1)
            IN  IF tail[1] = "'" /\ Len(tail) > 2
                THEN Parsed("key", key, ArgStr(Slice(tail, 1, Len(tail) - 1)), NoErr)
                ELSE IF Contains(tail, "?") THEN
                    LET p == ParenInterior(tail)
                    IN  IF ~p.found
                        THEN Parsed("", key, ArgNil,
                                    Err("invalid filter must contains parenthesis"))
                        ELSE IF p.panic
                        THEN Parsed("filter", key, ArgNil,
                                    Panic("slice bounds out of range"))
                        ELSE Parsed("filter", key, ArgStr(p.s),
                                    IF checkFilter(p.s) THEN NoErr
                                    ELSE Err("invalid filter"))
                ELSE Once(extractExpression(tail), LAMBDA x :
                    IF x.panic
                    THEN Parsed("", key, ArgNil, Panic("slice bounds out of range"))
                    ELSE IF x.ok THEN Parsed("expression", key, ArgStr(x.expr), NoErr)
                    ELSE IF Contains(tail, ":") THEN parseRange(key, tail)
                    ELSE IF tail = <<"*">>
                    THEN Parsed("range", key, ArgRange(OptNil, OptNil), NoErr)
                    ELSE Once(parseIdx(Split(tail, ","), <<>>), LAMBDA r :
                             IF r.ok THEN Parsed("idx", key, ArgInts(r.l), NoErr)
                             ELSE Parsed("", <<>>, ArgNil,
                                         Err("strconv.Atoi: invalid syntax"))))

Step(op, key, args) == [op |-> op, key |-> key, args |-> args]

\* the loop of Compile over tokens[1:]
RECURSIVE compileSteps(_, _)
compileSteps(tokens, steps) ==
    IF tokens = <<>> THEN [steps |-> steps, err |-> NoErr]
    ELSE Once(parse_token(Head(tokens)), LAMBDA p :
             IF IsErr(p.err) THEN [steps |-> <<>>, err |-> p.err]
             ELSE compileSteps(Tail(tokens), Append(steps, Step(p.op, p.key, p.args))))

\* Compile without the test of the first token: the steps of whatever
\* tokens follow the first character
CompileAnyStart(jpath) ==
    IF jpath = <<>>
    THEN [ok |-> FALSE, steps |-> <<>>, err |-> Panic("index out of range [0]")]
    ELSE
    Once(tokenizeLoop(<<"$">> \o Tail(jpath), 1, <<>>, <<>>), LAMBDA r :
    Once(compileSteps(Tail(IF Len(r.token) > 0 THEN Append(r.tokens, r.token)
                           ELSE r.tokens), <<>>), LAMBDA c :
         [ok |-> ~IsErr(c.err), steps |-> c.steps, err |-> c.err]))

\* Compile: ok = a program is returned; tokens[0] panics on an empty list
Compile(jpath) ==
    Once(tokenize(jpath), LAMBDA t :
        IF IsErr(t.err) THEN [ok |-> FALSE, steps |-> <<>>, err |-> t.err]
        ELSE IF Len(t.tokens) = 0
        THEN [ok |-> FALSE, steps |-> <<>>, err |-> Panic("index out of range [0]")]
        ELSE IF t.tokens[1] # <<"@">> /\ t.tokens[1] # <<"$">>
        THEN [ok |-> FALSE, steps |-> <<>>, err |-> Err("$ or @ should in front of path")]
        ELSE Once(compileSteps(Tail(t.tokens), <<>>), LAMBDA c :
                 [ok |-> ~IsErr(c.err), steps |-> c.steps, err |-> c.err]))


-----------------------------------------------------------------------------
(* Values and the heap.                                                    *)

Nil == [t |-> "nil"]
IntV(n) == [t |-> "int", n |-> n]             \* a Go int
FloatV(n) == [t |-> "float64", n |-> n]       \* a float64 holding the integer n
StrV(s) == [t |-> "string", s |-> s]
\* a map[string]interface{}: a reference to the heap cell p
MapRef(p) == [t |-> "map", p |-> p]
\* a []interface{}: length len from offset off of the backing array p; its
\* capacity is what is left of the backing array
SliceOf(p, off, len) == [t |-> "slice", p |-> p, off |-> off, len |-> len]

MapCell(m) == [k |-> "map", m |-> m]
ArrCell(e) == [k |-> "array", e |-> e]

EmptyMap == [key \in {} |-> Nil]
MapPut(m, key, v) == [x \in DOMAIN m \cup {key} |-> IF x = key THEN v ELSE m[x]]
MapDel(m, key) == [x \in DOMAIN m \ {key} |-> m[x]]

\* a new cell at the end of the heap
New(h, cell) == [h |-> Append(h, cell), p |-> Len(h) + 1]

\* reflect.Value.Index(i) of a slice, 0-based
Elem(h, s, i) == h[s.p].e[s.off + i + 1]
Cap(h, s) == Len(h[s.p].e) - s.off

\* the capacity append gives a slice grown one element at a time from empty
RECURSIVE GrowCap(_, _)
GrowCap(n, c) == IF c >= n THEN c ELSE GrowCap(n, IF c = 0 THEN 1 ELSE 2 * c)

\* the slice that res := []interface{}{} followed by one append per element
\* of elems leaves: a new backing array, nil beyond the length
NewSlice(h, elems) ==
    LET c == GrowCap(Len(elems), 0)
        a == New(h, ArrCell([i \in 1..c |-> IF i <= Len(elems) THEN elems[i] ELSE Nil]))
    IN  [h |-> a.h, v |-> SliceOf(a.p, 0, Len(elems))]

\* what an evaluation returns: the heap after it, the value and the error
R(h, v, e) == [h |-> h, v |-> v, e |-> e]

-----------------------------------------------------------------------------
(* The step helpers of the evaluator.                                      *)

\* get_idx with an index beyond either end moved to the nearest element
get_idx_clamped(h, obj, idx) ==
    IF obj.t = "nil" THEN R(h, Nil, Panic("nil pointer dereference"))
    ELSE IF obj.t # "slice" THEN R(h, Nil, Err("object is not Slice"))
    ELSE IF obj.len = 0 THEN R(h, Nil, Err("index out of range"))
    ELSE LET i == IF idx >= 0 THEN idx ELSE obj.len + idx
             c == IF i < 0 THEN 0 ELSE IF i >= obj.len THEN obj.len - 1 ELSE i
         IN  R(h, Elem(h, obj, c), NoErr)

get_idx(h, obj, idx) ==
    IF obj.t = "nil" THEN R(h, Nil, Panic("nil pointer dereference"))
    ELSE IF obj.t # "slice" THEN R(h, Nil, Err("object is not Slice"))
    ELSE LET length == obj.len
         IN  IF idx >= 0
             THEN IF idx >= length THEN R(h, Nil, Err("index out of range"))
                  ELSE R(h, Elem(h, obj, idx), NoErr)
             ELSE LET _idx == length + idx
                  IN  IF _idx < 0 THEN R(h, Nil, Err("index out of range"))
                      ELSE R(h, Elem(h, obj, _idx), NoErr)

\* frm and to are nil or an int
get_range(h, obj, frm, to) ==
    IF obj.t = "nil" THEN R(h, Nil, Panic("nil pointer dereference"))
    ELSE IF obj.t # "slice" THEN R(h, Nil, Err("object is not Slice"))
    ELSE
    LET length == obj.len
        fv == IF frm.t = "nil" THEN 0 ELSE frm.n
        tv == IF to.t = "nil" THEN length - 1 ELSE to.n
        _frm == IF fv < 0 THEN length + fv ELSE fv
        _to == IF tv < 0 THEN length + tv + 1 ELSE tv + 1
    IN  IF _frm < 0 \/ _frm >= length
        THEN R(h, Nil, Err("index [from] out of range"))
        ELSE IF _to < 0 \/ _to > length
        THEN R(h, Nil, Err("index [to] out of range"))
        ELSE IF _to < _frm
        THEN R(h, Nil, Panic("reflect.Value.Slice: slice index out of bounds"))
        ELSE R(h, SliceOf(obj.p, obj.off + _frm, _to - _frm), NoErr)

RECURSIVE get_key(_, _, _)
\* the Slice case of get_key keeping a nil for every element in which key
\* does not resolve
RECURSIVE getKeyLoopKeepAll(_, _, _, _, _)
getKeyLoopKeepAll(h, obj, key, i, res) ==
    IF i >= obj.len
    THEN IF Len(res) = 0 THEN R(h, Nil, NotExist(key))
         ELSE LET s == NewSlice(h, res) IN R(s.h, s.v, NoErr)
    ELSE Once(get_key(h, get_idx(h, obj, i).v, key), LAMBDA r :
             getKeyLoopKeepAll(r.h, obj, key, i + 1, Append(res, r.v)))

\* the Slice case of get_key collecting the values in the backing array of
\* obj itself (res := obj[:0]) instead of a new one
RECURSIVE getKeyLoopInPlace(_, _, _, _, _)
getKeyLoopInPlace(h, obj, key, i, res) ==
    IF i >= obj.len
    THEN IF Len(res) = 0 THEN R(h, Nil, NotExist(key))
         ELSE R([h EXCEPT ![obj.p].e =
                    [j \in DOMAIN @ |-> IF j - obj.off \in 1..Len(res)
                                        THEN res[j - obj.off] ELSE @[j]]],
                SliceOf(obj.p, obj.off, Len(res)), NoErr)
    ELSE Once(get_key(h, get_idx(h, obj, i).v, key), LAMBDA r :
             getKeyLoopInPlace(r.h, obj, key, i + 1,
                               IF r.e = NoErr THEN Append(res, r.v) ELSE res))

\* the Slice case of get_key: elements i.. of obj, res the values kept so far
RECURSIVE getKeyLoop(_, _, _, _, _)
getKeyLoop(h, obj, key, i, res) ==
    IF i >= obj.len
    THEN IF Len(res) = 0 THEN R(h, Nil, NotExist(key))
         ELSE LET s == NewSlice(h, res) IN R(s.h, s.v, NoErr)
    ELSE Once(get_key(h, get_idx(h, obj, i).v, key), LAMBDA r :
             getKeyLoop(r.h, obj, key, i + 1,
                        IF r.e = NoErr THEN Append(res, r.v) ELSE res))

get_key(h, obj, key) ==
    IF obj.t = "nil" THEN R(h, Nil, ErrGetFromNullObj)
    ELSE IF obj.t = "map"
    THEN IF key \in DOMAIN h[obj.p].m THEN R(h, h[obj.p].m[key], NoErr)
         ELSE R(h, Nil, NotExist(key))
    ELSE IF obj.t = "slice" THEN getKeyLoop(h, obj, key, 0, <<>>)
    ELSE R(h, Nil, Err("object is not map or slice"))

\* lookupKey without the sub-key: the key of the step only
lookupKeyOuterOnly(h, obj, s) ==
    Once(get_key(h, obj, s.key), LAMBDA r :
        IF IsErr(r.e) THEN [h |-> r.h, parent |-> obj, child |-> Nil, e |-> r.e]
        ELSE [h |-> r.h, parent |-> obj, child |-> r.v, e |-> NoErr])

\* lookupKey: the parent and the child it returns, and the error
lookupKey(h, obj, s) ==
    LET sub0 == IF s.args.t = "string" THEN s.args.s ELSE <<>>
        swap == s.key = <<>> /\ sub0 # <<>>
        key == IF swap THEN sub0 ELSE s.key
        subKey == IF swap THEN <<>> ELSE sub0
    IN  Once(get_key(h, obj, key), LAMBDA r :
            IF IsErr(r.e) THEN [h |-> r.h, parent |-> obj, child |-> Nil, e |-> r.e]
            ELSE IF subKey # <<>>
            THEN Once(get_key(r.h, r.v, subKey), LAMBDA r2 :
                     [h |-> r2.h, parent |-> r.v, child |-> r2.v, e |-> r2.e])
            ELSE [h |-> r.h, parent |-> obj, child |-> r.v, e |-> NoErr])

-----------------------------------------------------------------------------
(* Filter clauses: parse_filter, the comparator cmpAny, the restricted     *)
(* explicit-path evaluator and get_filtered.                               *)

\* the switch on stage that stores tmp: 0 -> lp, 1 -> op, 2 -> rp
StoreStage(f, stage, tmp) ==
    IF stage = 0 THEN [f EXCEPT !.lp = tmp]
    ELSE IF stage = 1 THEN [f EXCEPT !.op = tmp]
    ELSE IF stage = 2 THEN [f EXCEPT !.rp = tmp]
    ELSE f

\* the character loop of parse_filter; str_embrace is never reset
RECURSIVE parseFilterLoop(_, _, _, _, _, _)
parseFilterLoop(filter, i, f, tmp, stage, str_embrace) ==
    IF i > Len(filter) THEN [f |-> f, tmp |-> tmp, stage |-> stage, err |-> NoErr]
    ELSE
    LET c == filter[i]
    IN  IF c = "'" THEN
            IF ~str_embrace THEN parseFilterLoop(filter, i + 1, f, tmp, stage, TRUE)
            ELSE parseFilterLoop(filter, i + 1, StoreStage(f, stage, tmp), <<>>,
                                 stage, TRUE)
        ELSE IF c = " " THEN
            IF str_embrace
            THEN parseFilterLoop(filter, i + 1, f, Append(tmp, c), stage, TRUE)
            ELSE IF stage + 1 > 2
            THEN [f |-> [lp |-> <<>>, op |-> <<>>, rp |-> <<>>], tmp |-> <<>>,
                  stage |-> stage + 1, err |-> Err("invalid char")]
            ELSE parseFilterLoop(filter, i + 1, StoreStage(f, stage, tmp), <<>>,
                                 stage + 1, FALSE)
        ELSE parseFilterLoop(filter, i + 1, f, Append(tmp, c), stage, str_embrace)

Exists == <<"e", "x", "i", "s", "t", "s">>

parse_filter(filter) ==
    LET r == parseFilterLoop(filter, 1, [lp |-> <<>>, op |-> <<>>, rp |-> <<>>],
                             <<>>, 0, FALSE)
    IN  IF IsErr(r.err) THEN [lp |-> <<>>, op |-> <<>>, rp |-> <<>>, err |-> r.err]
        ELSE IF r.tmp # <<>>
        THEN IF r.stage = 0
             THEN [lp |-> r.tmp, op |-> Exists, rp |-> r.f.rp, err |-> NoErr]
             ELSE LET g == StoreStage(r.f, r.stage, r.tmp)
                  IN  [lp |-> g.lp, op |-> g.op, rp |-> g.rp, err |-> NoErr]
        ELSE [lp |-> r.f.lp, op |-> r.f.op, rp |-> r.f.rp, err |-> NoErr]

\* the printable ASCII characters in code order, from 32 (space) on; the
\* entry "grave" holds the place of code 96, which no text modelled uses
Ascii ==
    <<" ", "!", "\"", "#", "$", "%", "&", "'", "(", ")", "*", "+", ",", "-", ".", "/",
      "0", "1", "2", "3", "4", "5", "6", "7", "8", "9", ":", ";", "<", "=", ">", "?",
      "@", "A", "B", "C", "D", "E", "F", "G", "H", "I", "J", "K", "L", "M", "N", "O",
      "P", "Q", "R", "S", "T", "U", "V", "W", "X", "Y", "Z", "[", "\\", "]", "^", "_",
      "grave", "a", "b", "c", "d", "e", "f", "g", "h", "i", "j", "k", "l", "m", "n", "o",
      "p", "q", "r", "s", "t", "u", "v", "w", "x", "y", "z", "{", "|", "}", "~">>
Code(c) == (CHOOSE i \in 1..Len(Ascii) : Ascii[i] = c) + 31

\* a < b, and a <= b, for Go strings: byte-wise lexicographic
RECURSIVE StrLess(_, _)
StrLess(a, b) ==
    IF b = <<>> THEN FALSE
    ELSE IF a = <<>> THEN TRUE
    ELSE IF Head(a) = Head(b) THEN StrLess(Tail(a), Tail(b))
    ELSE Code(Head(a)) < Code(Head(b))

RECURSIVE NatToStr(_)
NatToStr(n) == IF n < 10 THEN <<Digits[n + 1]>>
               ELSE NatToStr(n \div 10) \o <<Digits[(n % 10) + 1]>>
IntToStr(n) == IF n < 0 THEN <<"-">> \o NatToStr(0 - n) ELSE NatToStr(n)

\* the keys of a map in sorted order, as fmt prints them
RECURSIVE SortKeys(_)
SortKeys(ks) ==
    IF ks = {} THEN <<>>
    ELSE LET m == CHOOSE x \in ks : \A y \in ks \ {x} : StrLess(x, y)
         IN  <<m>> \o SortKeys(ks \ {m})

RECURSIVE JoinSp(_)
JoinSp(parts) == IF parts = <<>> THEN <<>>
                 ELSE IF Len(parts) = 1 THEN parts[1]
                 ELSE parts[1] \o <<" ">> \o JoinSp(Tail(parts))

\* fmt's %v of a value
RECURSIVE FormatV(_, _)
FormatV(h, v) ==
    IF v.t = "nil" THEN <<"<", "n", "i", "l", ">">>
    ELSE IF v.t \in {"int", "float64"} THEN IntToStr(v.n)
    ELSE IF v.t = "string" THEN v.s
    ELSE IF v.t = "slice"
    THEN <<"[">> \o JoinSp([i \in 1..v.len |-> FormatV(h, Elem(h, v, i - 1))])
                 \o <<"]">>
    ELSE LET ks == SortKeys(DOMAIN h[v.p].m)
         IN  <<"m", "a", "p", "[">>
             \o JoinSp([i \in 1..Len(ks) |->
                           ks[i] \o <<":">> \o FormatV(h, h[v.p].m[ks[i]])])
             \o <<"]">>

RECURSIVE Pow10(_)
Pow10(n) == IF n = 0 THEN 1 ELSE 10 * Pow10(n - 1)
RECURSIVE OctVal(_)
OctVal(s) == IF s = <<>> THEN 0
             ELSE 8 * OctVal(SubSeq(s, 1, Len(s) - 1)) + DigitVal(s[Len(s)])

\* A numeric text: an optional sign, digits, at most one point.  float is
\* what strconv.ParseFloat accepts of it (texts with an exponent, a base
\* prefix, Inf or NaN are outside the characters modelled); lit is how the Go
\* constant evaluator reads the same text: num / 10^scale, where a whole
\* number with a leading 0 is an octal literal.
NumText(s) ==
    LET body == IF s # <<>> /\ Head(s) \in {"+", "-"} THEN Tail(s) ELSE s
        neg == s # <<>> /\ Head(s) = "-"
        dots == {i \in 1..Len(body) : body[i] = "."}
        digs == SelectSeq(body, IsDigit)
        float == /\ Cardinality(dots) <= 1
                 /\ Len(digs) >= 1
                 /\ Len(digs) + Cardinality(dots) = Len(body)
        octal == float /\ dots = {} /\ Len(body) > 1 /\ body[1] = "0"
        scale == IF dots = {} THEN 0 ELSE Len(body) - (CHOOSE i \in dots : TRUE)
        mag == IF octal THEN OctVal(digs) ELSE DecVal(digs)
    IN  [float |-> float,
         lit |-> float /\ (octal => \A i \in 1..Len(digs) : DigitVal(digs[i]) < 8),
         num |-> IF neg THEN 0 - mag ELSE mag,
         scale |-> scale]

isNumber(o) ==
    IF o.t \in {"int", "float64"} THEN TRUE
    ELSE IF o.t = "string" THEN NumText(o.s).float
    ELSE FALSE

Ops == {<<"<">>, <<"<", "=">>, <<"=", "=">>, <<">", "=">>, <<">">>}

\* the comparison op on an order: c is -1, 0 or 1
Holds(op, c) ==
    IF op = <<"<">> THEN c < 0
    ELSE IF op = <<"<", "=">> THEN c <= 0
    ELSE IF op = <<"=", "=">> THEN c = 0
    ELSE IF op = <<">", "=">> THEN c >= 0
    ELSE c > 0

\* cmpAny: the expression is printed and handed to types.Eval
cmpAny(h, obj1, obj2, op) ==
    IF op \notin Ops THEN [b |-> FALSE, e |-> Err("invalid filter operation")]
    ELSE
    Once(<<FormatV(h, obj1), FormatV(h, obj2)>>, LAMBDA s :
        IF isNumber(obj1) /\ isNumber(obj2)
        THEN Once(<<NumText(s[1]), NumText(s[2])>>, LAMBDA n :
                 LET x == n[1].num * Pow10(n[2].scale)
                     y == n[2].num * Pow10(n[1].scale)
                 IN  IF ~n[1].lit \/ ~n[2].lit
                     THEN [b |-> FALSE,
                           e |-> Err("eval: invalid digit in octal literal")]
                     ELSE [b |-> Holds(op, IF x < y THEN -1
                                           ELSE IF x = y THEN 0 ELSE 1),
                           e |-> NoErr])
        ELSE IF \E c \in {"\"", "\\"} : Contains(s[1], c) \/ Contains(s[2], c)
        THEN [b |-> FALSE, e |-> Err("eval: string literal")]
        ELSE [b |-> Holds(op, IF StrLess(s[1], s[2]) THEN -1
                              ELSE IF s[1] = s[2] THEN 0 ELSE 1),
              e |-> NoErr])

\* the loop of filter_get_from_explicit_path; parse_token's error is dropped
RECURSIVE explicitPathLoop(_, _, _)
explicitPathLoop(h, xobj, steps) ==
    IF steps = <<>> THEN R(h, xobj, NoErr)
    ELSE
    Once(parse_token(Head(steps)), LAMBDA p :
        IF IsPanic(p.err) THEN R(h, Nil, p.err)
        ELSE IF p.op = "key"
        THEN Once(get_key(h, xobj, p.key), LAMBDA r :
                 IF IsErr(r.e) THEN R(r.h, Nil, r.e)
                 ELSE explicitPathLoop(r.h, r.v, Tail(steps)))
        ELSE IF p.op = "idx"
        THEN IF Len(p.args.l) # 1
             THEN R(h, Nil, Err("don't support multiple index in filter"))
             ELSE Once(get_key(h, xobj, p.key), LAMBDA r :
                      IF IsErr(r.e) THEN R(r.h, Nil, r.e)
                      ELSE Once(get_idx(r.h, r.v, p.args.l[1]), LAMBDA r2 :
                               IF IsErr(r2.e) THEN R(r2.h, Nil, r2.e)
                               ELSE explicitPathLoop(r2.h, r2.v, Tail(steps))))
        ELSE R(h, Nil, Err("expression don't support in filter")))

filter_get_from_explicit_path(h, obj, jpath) ==
    Once(tokenize(jpath), LAMBDA t :
        IF IsErr(t.err) THEN R(h, Nil, t.err)
        ELSE IF Len(t.tokens) = 0 THEN R(h, Nil, Panic("index out of range [0]"))
        ELSE IF t.tokens[1] # <<"@">> /\ t.tokens[1] # <<"$">>
        THEN R(h, Nil, Err("$ or @ should in front of path"))
        ELSE explicitPathLoop(h, obj, Tail(t.tokens)))

get_lp_v(h, obj, rootObj, lp) ==
    IF HasPrefix(lp, <<"@", ".">>) \/ HasPrefix(lp, <<"$", ".">>)
    THEN filter_get_from_explicit_path(
             h, IF HasPrefix(lp, <<"@", ".">>) THEN obj ELSE rootObj, lp)
    ELSE R(h, Nil, Err("invalid filter"))

\* eval_filter: the error of get_lp_v is dropped; res is the boolean
eval_filter(h, obj, rootObj, lp, op, rp) ==
    Once(get_lp_v(h, obj, rootObj, lp), LAMBDA l :
        IF IsPanic(l.e) THEN [h |-> l.h, res |-> FALSE, e |-> l.e]
        ELSE IF op = Exists THEN [h |-> l.h, res |-> l.v # Nil, e |-> NoErr]
        ELSE IF op = <<"=", "~">>
        THEN [h |-> l.h, res |-> FALSE, e |-> Err("not implemented yet")]
        ELSE
        Once(IF HasPrefix(rp, <<"@", ".">>) \/ HasPrefix(rp, <<"$", ".">>)
             THEN filter_get_from_explicit_path(
                      l.h, IF HasPrefix(rp, <<"@", ".">>) THEN obj ELSE rootObj, rp)
             ELSE R(l.h, StrV(rp), NoErr),
             LAMBDA r :
                IF IsPanic(r.e) THEN [h |-> r.h, res |-> FALSE, e |-> r.e]
                ELSE Once(cmpAny(r.h, l.v, r.v, op), LAMBDA c :
                         [h |-> r.h, res |-> c.b, e |-> c.e])))

\* regFilterCompile and MatchString for a rule /pattern/ whose pattern is
\* made of letters and digits only: such a pattern matches the texts that
\* contain it.  Other patterns are outside the model (modelled: FALSE).
IsSubstr(pat, s) ==
    \E i \in 0..(Len(s) - Len(pat)) : SubSeq(s, i + 1, i + Len(pat)) = pat
regFilterCompile(rule) ==
    IF Len(rule) <= 2 THEN [pat |-> <<>>, modelled |-> TRUE, e |-> Err("empty rule")]
    ELSE IF rule[1] # "/" \/ rule[Len(rule)] # "/"
    THEN [pat |-> <<>>, modelled |-> TRUE, e |-> Err("invalid syntax")]
    ELSE LET pat == SubSeq(rule, 2, Len(rule) - 1)
         IN  [pat |-> pat,
              modelled |-> \A i \in 1..Len(pat) : Code(pat[i]) \in
                              (48..57) \cup (65..90) \cup (97..122),
              e |-> NoErr]

eval_reg_filter(h, obj, rootObj, lp, pat) ==
    Once(get_lp_v(h, obj, rootObj, lp), LAMBDA l :
        IF IsErr(l.e) THEN [h |-> l.h, res |-> FALSE, e |-> l.e]
        ELSE IF l.v.t = "string"
        THEN [h |-> l.h, res |-> IsSubstr(pat, l.v.s), e |-> NoErr]
        ELSE [h |-> l.h, res |-> FALSE,
              e |-> Err("only string can match with regular expression")])

\* the order in which a range over the map m visits its keys: Go leaves it
\* open; ko lists the keys in the order this run takes
MapKeys(m, ko) ==
    SelectSeq(ko, LAMBDA x : x \in DOMAIN m)
        \o SortKeys({x \in DOMAIN m : \A i \in 1..Len(ko) : ko[i] # x})

\* the loops of get_filtered over the candidates cands
RECURSIVE filterLoop(_, _, _, _, _, _)
filterLoop(h, cands, rootObj, f, pat, res) ==
    IF cands = <<>> THEN LET s == NewSlice(h, res) IN R(s.h, s.v, NoErr)
    ELSE
    LET tmp == Head(cands)
    IN  Once(IF f.op = <<"=", "~">> THEN eval_reg_filter(h, tmp, rootObj, f.lp, pat)
             ELSE eval_filter(h, tmp, rootObj, f.lp, f.op, f.rp),
             LAMBDA r :
                IF IsErr(r.e) THEN R(r.h, Nil, r.e)
                ELSE filterLoop(r.h, Tail(cands), rootObj, f, pat,
                                IF r.res THEN Append(res, tmp) ELSE res))

get_filtered(h, obj, rootObj, filter, ko) ==
    Once(parse_filter(filter), LAMBDA f :
    Once(IF f.op = <<"=", "~">> THEN regFilterCompile(f.rp)
         ELSE [pat |-> <<>>, modelled |-> TRUE, e |-> NoErr],
         LAMBDA re :
        IF IsErr(f.err) THEN R(h, Nil, f.err)
        ELSE IF obj.t = "nil" THEN R(h, Nil, Panic("nil pointer dereference"))
        ELSE IF obj.t \notin {"slice", "map"}
        THEN R(h, Nil, Err("don't support filter on this type"))
        ELSE IF IsErr(re.e) THEN R(h, Nil, re.e)
        ELSE filterLoop(h,
                        IF obj.t = "slice"
                        THEN [i \in 1..obj.len |-> Elem(h, obj, i - 1)]
                        ELSE Once(MapKeys(h[obj.p].m, ko), LAMBDA ks :
                                 [i \in 1..Len(ks) |-> h[obj.p].m[ks[i]]]),
                        rootObj, f, re.pat, <<>>)))

-----------------------------------------------------------------------------
(* Lookup.                                                                 *)

lookupExpression(h, obj, rootObj, s) ==
    Once(get_key(h, obj, s.key), LAMBDA r :
        IF IsErr(r.e) THEN R(r.h, Nil, r.e)
        ELSE Once(get_lp_v(r.h, r.v, rootObj, s.args.s), LAMBDA k :
                 IF IsErr(k.e) THEN R(k.h, Nil, k.e)
                 ELSE IF k.v.t = "string" THEN get_key(k.h, r.v, k.v.s)
                 ELSE IF k.v.t = "int" THEN get_idx(k.h, r.v, k.v.n)
                 ELSE R(k.h, Nil, Err("extracted invalid expression"))))

\* the multi-index loop of Lookup
RECURSIVE multiIdx(_, _, _, _)
multiIdx(h, obj, idxs, res) ==
    IF idxs = <<>> THEN LET s == NewSlice(h, res) IN R(s.h, s.v, NoErr)
    ELSE Once(get_idx(h, obj, Head(idxs)), LAMBDA r :
             IF IsErr(r.e) THEN R(r.h, Nil, r.e)
             ELSE multiIdx(r.h, obj, Tail(idxs), Append(res, r.v)))

\* obj after the optional leading key of an idx or range step
leadKey(h, obj, s) ==
    IF Len(s.key) > 0 THEN get_key(h, obj, s.key) ELSE R(h, obj, NoErr)

\* One iteration of the loop of Lookup on step s with cursor obj: the new
\* cursor, and ret when the iteration returns from Lookup (with v and e).
LookupStep(h, obj, rootObj, s, ko) ==
    LET \* the iteration ends with r: the next cursor, or the return on error
        Out(r) == [h |-> r.h, v |-> IF IsErr(r.e) THEN Nil ELSE r.v, e |-> r.e,
                   ret |-> IsErr(r.e)]
    IN  IF s.op = "key"
        THEN Once(lookupKey(h, obj, s), LAMBDA r : Out(R(r.h, r.child, r.e)))
        ELSE IF s.op = "idx"
        THEN Once(leadKey(h, obj, s), LAMBDA k :
                 IF IsErr(k.e) THEN Out(k)
                 ELSE IF Len(s.args.l) > 1
                 THEN Once(multiIdx(k.h, k.v, s.args.l, <<>>), LAMBDA r : Out(r))
                 ELSE IF Len(s.args.l) = 1
                 THEN Once(get_idx(k.h, k.v, s.args.l[1]), LAMBDA r : Out(r))
                 ELSE Out(R(k.h, Nil, Err("cannot index on empty slice"))))
        ELSE IF s.op = "range"
        THEN Once(leadKey(h, obj, s), LAMBDA k :
                 IF IsErr(k.e) THEN Out(k)
                 ELSE IF s.args.t = "range"
                 THEN Once(get_range(k.h, k.v, s.args.frm, s.args.to),
                           LAMBDA r : Out(r))
                 ELSE Out(R(k.h, Nil, Err("range args length should be 2"))))
        ELSE IF s.op = "filter"
        THEN Once(get_key(h, obj, s.key), LAMBDA k :
                 IF IsErr(k.e) THEN Out(k)
                 ELSE Once(get_filtered(k.h, k.v, rootObj, s.args.s, ko),
                           LAMBDA r : Out(r)))
        ELSE IF s.op = "expression"
        THEN Once(lookupExpression(h, obj, rootObj, s), LAMBDA r : Out(r))
        ELSE IF s.op = "scan" THEN [h |-> h, v |-> obj, e |-> NoErr, ret |-> TRUE]
        ELSE Out(R(h, Nil, Err("expression don't support in filter")))

RECURSIVE lookupLoop(_, _, _, _, _)
lookupLoop(h, obj, rootObj, steps, ko) ==
    IF steps = <<>> THEN R(h, obj, NoErr)
    ELSE Once(LookupStep(h, obj, rootObj, Head(steps), ko), LAMBDA r :
             IF r.ret THEN R(r.h, r.v, r.e)
             ELSE lookupLoop(r.h, r.v, rootObj, Tail(steps), ko))

\* (c *Compiled) Lookup(rootObj)
Lookup(h, steps, rootObj, ko) == lookupLoop(h, rootObj, rootObj, steps, ko)

JsonPathLookup(h, obj, jpath, ko) ==
    Once(Compile(jpath), LAMBDA c :
        IF ~c.ok THEN R(h, Nil, c.err) ELSE Lookup(h, c.steps, obj, ko))

-----------------------------------------------------------------------------
(* Documents.  A tree is the JSON value a document holds; Alloc builds the *)
(* Go value of a tree on the heap and TreeOf reads it back.                *)

TNil == Nil
TObj(o) == [t |-> "obj", o |-> o]
TArr(a) == [t |-> "arr", a |-> a]

RECURSIVE Alloc(_, _, _)
\* the elements elems allocated in order
RECURSIVE allocSeq(_, _, _, _)
allocSeq(h, elems, grow, acc) ==
    IF elems = <<>> THEN [h |-> h, vs |-> acc]
    ELSE Once(Alloc(h, Head(elems), grow), LAMBDA r :
             allocSeq(r.h, Tail(elems), grow, Append(acc, r.v)))

\* grow: arrays get the capacity that appending their elements one by one
\* leaves (a decoded document); otherwise exactly their length (a literal)
Alloc(h, tree, grow) ==
    IF tree.t = "obj"
    THEN Once(SortKeys(DOMAIN tree.o), LAMBDA ks :
         Once(allocSeq(h, [i \in 1..Len(ks) |-> tree.o[ks[i]]], grow, <<>>),
              LAMBDA r :
         Once(New(r.h, MapCell([key \in DOMAIN tree.o |->
                        r.vs[CHOOSE i \in 1..Len(ks) : ks[i] = key]])),
              LAMBDA c : [h |-> c.h, v |-> MapRef(c.p)])))
    ELSE IF tree.t = "arr"
    THEN LET n == Len(tree.a)
             cp == IF grow THEN GrowCap(n, 0) ELSE n
         IN  Once(allocSeq(h, tree.a, grow, <<>>), LAMBDA r :
             Once(New(r.h, ArrCell([i \in 1..cp |->
                                       IF i <= n THEN r.vs[i] ELSE Nil])),
                  LAMBDA c : [h |-> c.h, v |-> SliceOf(c.p, 0, n)]))
    ELSE [h |-> h, v |-> tree]

RECURSIVE TreeOf(_, _)
TreeOf(h, v) ==
    IF v.t = "map"
    THEN TObj([key \in DOMAIN h[v.p].m |-> TreeOf(h, h[v.p].m[key])])
    ELSE IF v.t = "slice"
    THEN TArr([i \in 1..v.len |-> TreeOf(h, Elem(h, v, i - 1))])
    ELSE v

-----------------------------------------------------------------------------
(* The mutation engine: Set.                                               *)

\* followPtr on a value that is no pointer: rv.Interface() panics on nil
followPtr(data) ==
    IF data.t = "nil" THEN [v |-> Nil, e |-> Panic("reflect: call of reflect.Value.Interface on zero Value")]
    ELSE [v |-> data, e |-> NoErr]

stepToPath(s) ==
    IF s.op = "key"
    THEN IF s.args.t = "string"
         THEN <<"$", ".">> \o s.key \o <<"[", "'">> \o s.args.s \o <<"'", "]">>
         ELSE <<"$", ".">> \o s.key
    ELSE <<"$">>

\* what a key step of Set returns from Set with after lookupKey gave the
\* error e (NoErr: the loop goes on): a missing key is let through on the
\* last step only
keyStepReturn(e, isLast) ==
    IF IsErr(e) /\ e.k \notin {"NotExist", "ErrGetFromNullObj"} THEN e
    ELSE IF IsErr(e) /\ ~isLast THEN Err("incorrect set path")
    ELSE NoErr

\* The traversal loop of Set from step i (1-based) on.  ret: the loop
\* returned from Set with the error e.
RECURSIVE setLoop(_, _, _, _, _, _, _, _)
setLoop(h, steps, i, parent, child, lastError, rootObj, ko) ==
    IF i > Len(steps)
    THEN [h |-> h, parent |-> parent, child |-> child, lastError |-> lastError,
          ret |-> FALSE, e |-> NoErr]
    ELSE
    LET s == steps[i]
        isLast == i = Len(steps)
        Return(hh, e) == [h |-> hh, parent |-> parent, child |-> child,
                          lastError |-> lastError, ret |-> TRUE, e |-> e]
        Go(hh, par, ch, le) ==
            setLoop(hh, steps, i + 1, IF isLast THEN par ELSE ch, ch, le, rootObj, ko)
    IN  IF s.op = "key"
        THEN Once(lookupKey(h, parent, s), LAMBDA x :
             Once(keyStepReturn(x.e, isLast), LAMBDA e :
                 IF IsErr(e) THEN Return(x.h, e)
                 ELSE Go(x.h, x.parent, x.child, x.e)))
        ELSE IF s.op = "idx"
        THEN Once(leadKey(h, parent, s), LAMBDA k :
                 IF IsErr(k.e) THEN Return(k.h, k.e)
                 ELSE IF Len(s.args.l) = 1
                 THEN Once(get_idx(k.h, k.v, s.args.l[1]), LAMBDA r :
                          IF IsErr(r.e) THEN Return(r.h, r.e)
                          ELSE Go(r.h, k.v, r.v, lastError))
                 ELSE Go(k.h, k.v, child, lastError))
        ELSE IF s.op = "filter"
        THEN Once(get_key(h, parent, s.key), LAMBDA k :
                 IF IsErr(k.e) THEN Return(k.h, k.e)
                 ELSE Once(get_filtered(k.h, k.v, rootObj, s.args.s, ko), LAMBDA r :
                          IF IsErr(r.e) THEN Return(r.h, r.e)
                          ELSE Go(r.h, parent, r.v, lastError)))
        ELSE IF s.op = "expression"
        THEN Once(lookupExpression(h, parent, rootObj, s), LAMBDA r :
                 IF IsErr(r.e) THEN Return(r.h, r.e)
                 ELSE Go(r.h, parent, r.v, lastError))
        ELSE Return(h, Err("expression don't support in set"))

RECURSIVE Set(_, _, _, _, _)
\* the broadcast loop of Set over the elements i.. of the slice parent
RECURSIVE setBroadcast(_, _, _, _, _, _)
setBroadcast(h, parent, i, lastStepPath, value, ko) ==
    IF i >= parent.len THEN [h |-> h, e |-> NoErr]
    ELSE Once(Set(h, Elem(h, parent, i), lastStepPath, value, ko), LAMBDA r :
             IF IsErr(r.e) THEN r
             ELSE setBroadcast(r.h, parent, i + 1, lastStepPath, value, ko))

\* the write of Set once the traversal has ended at parent
setTerminal(h, t, last_, value, ko) ==
    IF t.parent.t = "map"
    THEN IF last_.args.t = "string"
         THEN IF t.lastError.k = "NotExist" /\ t.lastError.key # last_.key
              THEN [h |-> [h EXCEPT ![t.parent.p].m =
                              MapPut(@, t.lastError.key, value)],
                    e |-> NoErr]
              ELSE Once(New(h, MapCell(MapPut(EmptyMap, last_.args.s, value))),
                        LAMBDA c :
                           [h |-> [c.h EXCEPT ![t.parent.p].m =
                                      MapPut(@, last_.key, MapRef(c.p))],
                            e |-> NoErr])
         ELSE [h |-> [h EXCEPT ![t.parent.p].m = MapPut(@, last_.key, value)],
               e |-> NoErr]
    ELSE IF t.parent.t = "slice"
    THEN IF last_.op = "idx"
         THEN LET idx == last_.args.l[1]
              IN  IF idx < 0 \/ idx >= t.parent.len
                  THEN [h |-> h, e |-> Panic("reflect: slice index out of range")]
                  ELSE [h |-> [h EXCEPT ![t.parent.p].e[t.parent.off + idx + 1] = value],
                        e |-> NoErr]
         ELSE IF last_.op = "key"
         THEN setBroadcast(h, t.parent, 0, stepToPath(last_), value, ko)
         ELSE [h |-> h, e |-> NoErr]
    ELSE [h |-> h, e |-> Err("could not set value at path")]

\* Set(rootObj, path, value): the heap after it and the error returned
Set(h, rootObj, jpath, value, ko) ==
    LET obj == followPtr(rootObj)
        val == followPtr(value)
    IN  Once(Compile(jpath), LAMBDA c :
        IF ~c.ok THEN [h |-> h, e |-> c.err]
        ELSE IF IsErr(obj.e) THEN [h |-> h, e |-> obj.e]
        ELSE IF IsErr(val.e) THEN [h |-> h, e |-> val.e]
        ELSE Once(setLoop(h, c.steps, 1, obj.v, obj.v, NoErr, rootObj, ko),
                  LAMBDA t :
                 IF t.ret THEN [h |-> t.h, e |-> t.e]
                 ELSE IF Len(c.steps) = 0
                 THEN [h |-> t.h, e |-> Panic("index out of range [-1]")]
                 ELSE setTerminal(t.h, t, c.steps[Len(c.steps)], val.v, ko)))

-----------------------------------------------------------------------------
(* The mutation engine: Del.                                               *)

\* deleteElement(objSrc, i): reflect.AppendSlice onto slice.Slice(0, i),
\* whose capacity reaches to the end of the backing array, moves the
\* elements after i one place down in the backing array of objSrc itself
deleteElement(h, s, i) ==
    IF i < 0 \/ i > Cap(h, s) \/ i + 1 > s.len
    THEN R(h, Nil, Panic("reflect.Value.Slice: slice index out of bounds"))
    ELSE R([h EXCEPT ![s.p].e =
               [j \in DOMAIN @ |-> IF j - s.off \in (i + 1)..(s.len - 1)
                                   THEN @[j + 1] ELSE @[j]]],
           SliceOf(s.p, s.off, s.len - 1), NoErr)

\* The traversal loop of Del from step i (1-based) on.  ret: the loop
\* returned from Del with the error e.
RECURSIVE delLoop(_, _, _, _, _)
delLoop(h, steps, i, parent, child) ==
    IF i > Len(steps)
    THEN [h |-> h, parent |-> parent, child |-> child, ret |-> FALSE, e |-> NoErr]
    ELSE
    LET s == steps[i]
        isLast == i = Len(steps)
        Return(hh, e) == [h |-> hh, parent |-> parent, child |-> child,
                          ret |-> TRUE, e |-> e]
        Go(hh, par, ch) == delLoop(hh, steps, i + 1, IF isLast THEN par ELSE ch, ch)
    IN  IF s.op = "key"
        THEN Once(lookupKey(h, parent, s), LAMBDA x :
                 IF IsErr(x.e) THEN Return(x.h, x.e)
                 ELSE Go(x.h, x.parent, x.child))
        ELSE IF s.op = "idx"
        THEN Once(leadKey(h, parent, s), LAMBDA k :
                 IF IsErr(k.e) THEN Return(k.h, k.e)
                 ELSE IF Len(s.args.l) = 1
                 THEN Once(get_idx(k.h, k.v, s.args.l[1]), LAMBDA r :
                          IF IsErr(r.e) THEN Return(r.h, r.e)
                          ELSE Go(r.h, k.v, r.v))
                 ELSE Go(k.h, k.v, child))
        ELSE Return(h, Err("not support del operation"))

\* the map case of Del removing the outer key of the last step whether or
\* not the step carries a sub-key
delTerminalOuterKey(h, objSrc, jpath, parent, last_, ko) ==
    IF parent.t = "map"
    THEN [h |-> [h EXCEPT ![parent.p].m = MapDel(@, last_.key)], e |-> NoErr]
    ELSE [h |-> h, e |-> NoErr]

\* the removal of Del once the traversal has ended at parent
delTerminal(h, objSrc, jpath, parent, last_, ko) ==
    IF parent.t = "map"
    THEN LET deletedKey == IF last_.args.t = "string" THEN last_.args.s
                           ELSE last_.key
         IN  [h |-> [h EXCEPT ![parent.p].m = MapDel(@, deletedKey)], e |-> NoErr]
    ELSE IF parent.t = "slice"
    THEN IF last_.args.t # "ints"
         THEN [h |-> h, e |-> Panic("interface conversion: interface {} is not []int")]
         ELSE Once(deleteElement(h, parent, last_.args.l[1]), LAMBDA d :
                  IF IsErr(d.e) THEN [h |-> d.h, e |-> d.e]
                  ELSE IF LastIndex(jpath, "[") < 0
                  THEN [h |-> d.h, e |-> Panic("slice bounds out of range [:-1]")]
                  ELSE Set(d.h, objSrc, Slice(jpath, 0, LastIndex(jpath, "[")),
                           d.v, ko))
    ELSE [h |-> h, e |-> NoErr]

\* Del(objSrc, path): the heap after it and the error returned
Del(h, objSrc, jpath, ko) ==
    Once(Compile(jpath), LAMBDA c :
        IF ~c.ok THEN [h |-> h, e |-> c.err]
        ELSE IF IsErr(followPtr(objSrc).e) THEN [h |-> h, e |-> followPtr(objSrc).e]
        ELSE Once(delLoop(h, c.steps, 1, objSrc, objSrc), LAMBDA t :
                 IF t.ret THEN [h |-> t.h, e |-> t.e]
                 ELSE IF Len(c.steps) = 0
                 THEN [h |-> t.h, e |-> Panic("index out of range [-1]")]
                 ELSE delTerminal(t.h, objSrc, jpath, t.parent,
                                  c.steps[Len(c.steps)], ko)))

-----------------------------------------------------------------------------
(* The mutation engine: Append.                                            *)

\* reflect.Append(s, reflect.ValueOf(value)): within the capacity the element
\* is written behind the length in the backing array of s; otherwise the
\* elements move to a new backing array.  The zero Value of a nil payload
\* cannot be stored.
reflectAppend(h, s, value) ==
    IF value.t = "nil"
    THEN R(h, Nil, Panic("reflect: call of reflect.Value.Set on zero Value"))
    ELSE IF s.len < Cap(h, s)
    THEN R([h EXCEPT ![s.p].e[s.off + s.len + 1] = value],
           SliceOf(s.p, s.off, s.len + 1), NoErr)
    ELSE Once(New(h, ArrCell([i \in 1..GrowCap(s.len + 1, Cap(h, s)) |->
                                 IF i <= s.len THEN Elem(h, s, i - 1)
                                 ELSE IF i = s.len + 1 THEN value ELSE Nil])),
              LAMBDA a : R(a.h, SliceOf(a.p, 0, s.len + 1), NoErr))

\* The traversal loop of Append from step i (1-based) on: the error of
\* lookupKey is dropped, and a nil child leaves parent where it was.
RECURSIVE appendLoop(_, _, _, _, _)
appendLoop(h, steps, i, parent, child) ==
    IF i > Len(steps)
    THEN [h |-> h, parent |-> parent, child |-> child, ret |-> FALSE, e |-> NoErr]
    ELSE
    LET s == steps[i]
        isLast == i = Len(steps)
        Return(hh, e) == [h |-> hh, parent |-> parent, child |-> child,
                          ret |-> TRUE, e |-> e]
        Go(hh, par, ch) == appendLoop(hh, steps, i + 1, IF isLast THEN par ELSE ch, ch)
    IN  IF s.op = "key"
        THEN Once(lookupKey(h, parent, s), LAMBDA x :
                 IF x.child # Nil THEN Go(x.h, x.parent, x.child)
                 ELSE Go(x.h, parent, x.parent))
        ELSE IF s.op = "idx"
        THEN Once(leadKey(h, parent, s), LAMBDA k :
                 IF IsErr(k.e) THEN Return(k.h, k.e)
                 ELSE IF Len(s.args.l) = 1
                 THEN Once(get_idx(k.h, k.v, s.args.l[1]), LAMBDA r :
                          IF IsErr(r.e) THEN Return(r.h, r.e)
                          ELSE Go(r.h, k.v, r.v))
                 ELSE Go(k.h, k.v, child))
        ELSE Return(h, Err("not support append operation"))

\* the switch on childVal.Kind(): the heap, newValue, last.args after it
appendChild(h, child, last_, value) ==
    IF child.t = "map"
    THEN IF last_.args.t # "string"
         THEN [h |-> h, newValue |-> Nil, args |-> last_.args,
               e |-> Err("incorrect append operation, key must be a string")]
         ELSE [h |-> [h EXCEPT ![child.p].m =
                         IF value.t = "nil" THEN MapDel(@, last_.args.s)
                         ELSE MapPut(@, last_.args.s, value)],
               newValue |-> child, args |-> ArgNil, e |-> NoErr]
    ELSE IF child.t = "slice"
    THEN Once(reflectAppend(h, child, value), LAMBDA a :
             [h |-> a.h, newValue |-> a.v, args |-> last_.args, e |-> a.e])
    ELSE [h |-> h, newValue |-> Nil, args |-> last_.args,
          e |-> Err("not support append operation")]

\* the write of Append once the traversal has ended at parent and child
appendTerminal(h, parent, child, last_, value) ==
    IF child = parent THEN [h |-> h, e |-> Err("incorrect object lookup")]
    ELSE Once(appendChild(h, child, last_, value), LAMBDA c :
        IF IsErr(c.e) THEN [h |-> c.h, e |-> c.e]
        ELSE IF parent.t = "map"
        THEN [h |-> [c.h EXCEPT ![parent.p].m =
                        MapPut(@, IF c.args.t = "string" THEN c.args.s
                                  ELSE last_.key, c.newValue)],
              e |-> NoErr]
        ELSE IF parent.t = "slice"
        THEN IF c.args.t # "ints"
             THEN [h |-> c.h,
                   e |-> Panic("interface conversion: interface {} is not []int")]
             ELSE IF c.args.l[1] < 0 \/ c.args.l[1] >= parent.len
             THEN [h |-> c.h, e |-> Panic("reflect: slice index out of range")]
             ELSE [h |-> [c.h EXCEPT ![parent.p].e[parent.off + c.args.l[1] + 1] =
                             c.newValue],
                   e |-> NoErr]
        ELSE [h |-> c.h, e |-> NoErr])

\* Append(obj, path, value): the heap after it and the error returned.  The
\* name Append is the sequence operator's; the function is AppendTo here.
AppendTo(h, obj, jpath, value) ==
    Once(Compile(jpath), LAMBDA c :
        IF ~c.ok THEN [h |-> h, e |-> c.err]
        ELSE IF IsErr(followPtr(obj).e) THEN [h |-> h, e |-> followPtr(obj).e]
        ELSE Once(appendLoop(h, c.steps, 1, obj, obj), LAMBDA t :
                 IF t.ret THEN [h |-> t.h, e |-> t.e]
                 ELSE IF Len(c.steps) = 0
                 THEN [h |-> t.h, e |-> Panic("index out of range [-1]")]
                 ELSE appendTerminal(t.h, t.parent, t.child,
                                     c.steps[Len(c.steps)], value)))

-----------------------------------------------------------------------------
(* SpecCompile: Compile applied to every path text over PathChars of at    *)
(* most MaxPathLen characters.                                             *)

MaxPathLen == 4
PathChars == {"$", "@", ".", "[", "]", "a", "1", "*", "?"}
PathTexts == UNION {[1..n -> PathChars] : n \in 0..MaxPathLen}

NotRun == [done |-> FALSE]
Unused == [k |-> "unused"]

InitCompile ==
    /\ path \in PathTexts
    /\ compiled = NotRun
    /\ heap = <<>> /\ root = Unused /\ last = Unused /\ nops = 0
    /\ fin = Unused /\ fout = Unused
    /\ cpc = Unused /\ ccur = Unused /\ cres = Unused

DoCompile ==
    /\ ~compiled.done
    /\ compiled' = [done |-> TRUE, r |-> Compile(path)]
    /\ UNCHANGED <<path, heap, root, last, nops, fin, fout, cpc, ccur, cres>>

NextCompile == DoCompile

SpecCompile == InitCompile /\ [][NextCompile]_vars

C4_CompileTotal == compiled.done => ~IsPanic(compiled.r.err)

\* a [ with no ] after it: the group it opens, or lies in, is not closed
Unclosed(p) ==
    \E i \in 1..Len(p) : p[i] = "[" /\ \A j \in (i + 1)..Len(p) : p[j] # "]"

\* a [ followed at once by ]
EmptyGroup(p) == \E i \in 1..(Len(p) - 1) : p[i] = "[" /\ p[i + 1] = "]"

\* a group [ ... ] with a ? and no parenthesis in it
FilterGroupNoParens(p) ==
    \E i \in 1..Len(p), j \in 1..Len(p) :
        /\ i < j /\ p[i] = "[" /\ p[j] = "]"
        /\ \A m \in (i + 1)..(j - 1) : p[m] \notin {"]", "(", ")"}
        /\ \E m \in (i + 1)..(j - 1) : p[m] = "?"

\* C21: Compile returns an error for every path with a [ whose group is not
\* closed by a ], with an empty group [], or with a filter group without
\* parentheses.
C21_MalformedBrackets ==
    (compiled.done /\ path # <<>> /\ path[1] \in {"$", "@"}
         /\ (Unclosed(path) \/ EmptyGroup(path) \/ FilterGroupNoParens(path)))
        => (~compiled.r.ok /\ compiled.r.err.k = "error")

-----------------------------------------------------------------------------
(* Spec: a document under a sequence of at most MaxOps calls of Set and    *)
(* Lookup.  A call that faults ends the run.                               *)

MaxOps == 2
\* the longest array of the documents of SpecEdit
MaxEditLen == 3

kA == <<"a">>
kB == <<"b">>
kP == <<"p">>
DocKeys == {kA, kB, kP}

\* path texts: $, p.k, p.k['s'], p.k[i], p.k[?(clause)]
Dollar == <<"$">>
Dot(p, k) == p \o <<".">> \o k
Quoted(p, k, s) == p \o <<".">> \o k \o <<"[", "'">> \o s \o <<"'", "]">>
At(p, k, i) == p \o <<".">> \o k \o <<"[">> \o IntToStr(i) \o <<"]">>
Where(p, k, clause) == p \o <<".">> \o k \o <<"[", "?", "(">> \o clause \o <<")", "]">>

Obj1(k, v) == TObj(k :> v)
Obj2(k, v, j, w) == TObj((k :> v) @@ (j :> w))

DocTrees ==
    { Obj1(kA, Obj1(kP, IntV(1))),
      Obj1(kA, Obj1(kB, IntV(1))),
      Obj1(kB, IntV(2)),
      Obj1(kA, TArr(<<Obj1(kP, IntV(1)), Obj1(kP, IntV(12)), Obj1(kB, IntV(3))>>)),
      Obj1(kA, TArr(<<IntV(1), IntV(2), IntV(3)>>)),
      Obj1(kA, Obj2(kA, Obj1(kP, IntV(12)), kB, Obj1(kP, IntV(1)))),
      Obj1(kA, TNil) }

PriceClause == <<"@", ".", "p", " ", ">", " ", "1", "0">>

DocPaths ==
    { Dollar, Dot(Dollar, kA), Dot(Dollar, kB),
      Dot(Dot(Dollar, kA), kP), Dot(Dot(Dollar, kB), kP),
      Quoted(Dollar, kA, kP), Quoted(Dollar, kB, kP),
      At(Dollar, kA, 0), At(Dollar, kA, -1),
      Dot(Where(Dollar, kA, PriceClause), kP) }

\* the payloads of Set: Go values that need no cell of the heap
Payloads == {IntV(7), Nil}

\* the order in which this run ranges over the keys of a map
DocKeyOrder == <<kA, kB, kP>>

Tree == TreeOf(heap, root)

NoOp == [op |-> "none"]
\* an operation as the next one remembers it
Brief(l) == IF l.op = "none" THEN l
            ELSE [op |-> l.op, path |-> l.path, value |-> l.value, e |-> l.e,
                  before |-> l.before]

Init ==
    /\ fin \in DocTrees
    /\ LET d == Alloc(<<>>, fin, FALSE) IN heap = d.h /\ root = d.v
    /\ last = NoOp /\ nops = 0
    /\ path = <<>> /\ compiled = NotRun /\ fout = NotRun
    /\ cpc = Unused /\ ccur = Unused /\ cres = Unused

Running == nops < MaxOps /\ (last.op # "none" => ~IsPanic(last.e))

DocFrame == UNCHANGED <<root, fin, path, compiled, fout, cpc, ccur, cres>>

DoSet ==
    /\ Running
    /\ \E p \in DocPaths, v \in Payloads :
          LET r == Set(heap, root, p, v, DocKeyOrder)
          IN  /\ heap' = r.h
              /\ last' = [op |-> "Set", path |-> p, value |-> v, e |-> r.e,
                          v |-> Nil, before |-> Tree, prev |-> Brief(last)]
    /\ nops' = nops + 1
    /\ DocFrame

DoLookup ==
    /\ Running
    /\ \E p \in DocPaths :
          LET r == JsonPathLookup(heap, root, p, DocKeyOrder)
          IN  /\ heap' = r.h
              /\ last' = [op |-> "Lookup", path |-> p, value |-> Nil, e |-> r.e,
                          v |-> TreeOf(r.h, r.v), before |-> Tree,
                          prev |-> Brief(last)]
    /\ nops' = nops + 1
    /\ DocFrame

Next == DoSet \/ DoLookup

Spec == Init /\ [][Next]_vars

\* the tree o (an Object) with key mapped to v
With(o, key, v) == TObj([x \in DOMAIN o.o \cup {key} |-> IF x = key THEN v ELSE o.o[x]])

\* a Lookup that follows a Set of the same path that returned nil
LookupAfterSet ==
    /\ last.op = "Lookup" /\ last.prev.op = "Set"
    /\ last.prev.e = NoErr /\ last.prev.path = last.path

\* the document before the Set holds an Object wherever the path p takes a
\* key, and an Array where it takes an index
Direct(doc, p) ==
    /\ doc.t = "obj"
    /\ \A k \in DocKeys :
          /\ \A j \in DocKeys :
                p = Dot(Dot(Dollar, k), j) => k \in DOMAIN doc.o /\ doc.o[k].t = "obj"
          /\ \A j \in DocKeys :
                p = Quoted(Dollar, k, j) => k \in DOMAIN doc.o /\ doc.o[k].t = "obj"
          /\ \A i \in -1..0 :
                p = At(Dollar, k, i) => k \in DOMAIN doc.o /\ doc.o[k].t = "arr"
    /\ p # Dollar
    /\ p # Dot(Where(Dollar, kA, PriceClause), kP)

\* C1: after Set(root, p, v) returns nil on a path whose containers exist,
\* Lookup(root, p) returns v: for a terminal plain key, a terminal quoted
\* sub-key (present or not) and a terminal single index.
C1_RoundTrip ==
    (LookupAfterSet /\ Direct(last.prev.before, last.path)) =>
        last.e = NoErr /\ last.v = last.prev.value

\* C9: Set on a path of plain keys: when a key before the last is absent the
\* call returns an error and the tree is as before; when only the last key
\* is absent from its Object the call returns nil and that Object maps the
\* key to the payload, everything else as before.
C9_SetCreatesTerminalKeyOnly ==
    (last.op = "Set" /\ last.before.t = "obj") =>
        \A k \in DocKeys :
            /\ \A j \in DocKeys :
                  (last.path = Dot(Dot(Dollar, k), j) /\ k \notin DOMAIN last.before.o) =>
                      last.e.k \in {"error", "NotExist", "ErrGetFromNullObj"}
                          /\ Tree = last.before
            /\ (last.path = Dot(Dollar, k) /\ k \notin DOMAIN last.before.o) =>
                  last.e = NoErr /\ Tree = With(last.before, k, last.value)
            /\ \A j \in DocKeys :
                  ( /\ last.path = Dot(Dot(Dollar, k), j)
                    /\ k \in DOMAIN last.before.o
                    /\ last.before.o[k].t = "obj"
                    /\ j \notin DOMAIN last.before.o[k].o ) =>
                      /\ last.e = NoErr
                      /\ Tree = With(last.before, k, With(last.before.o[k], j, last.value))

\* C10: Set(root, $.k['s'], v) on a root Object returns nil and leaves
\* root[k] an Object mapping s to v, its other entries as before, no key
\* added but s in root[k] and k in root: with k absent, with k present
\* without s, and with k and s both present.
C10_SetQuotedSubKey ==
    (last.op = "Set" /\ last.before.t = "obj" /\ last.value # Nil) =>
        \A k \in DocKeys, sub \in DocKeys :
            ( /\ last.path = Quoted(Dollar, k, sub)
              /\ (k \in DOMAIN last.before.o => last.before.o[k].t = "obj") ) =>
                /\ last.e = NoErr
                /\ Tree = With(last.before, k,
                               With(IF k \in DOMAIN last.before.o THEN last.before.o[k]
                                    ELSE TObj(EmptyMap),
                                    sub, last.value))

-----------------------------------------------------------------------------
(* SpecEdit: a document and a path under a sequence of at most MaxOps      *)
(* calls of Set, Del, Append and Lookup with that path.  A call that       *)
(* faults ends the run.                                                    *)

\* the indices of the paths $.a[i]
EditIdx == (0 - MaxEditLen)..(MaxEditLen - 1)

EditTrees ==
    { Obj2(kA, TArr(<<IntV(1), IntV(2), IntV(3)>>), kB, IntV(2)),
      Obj1(kA, TArr(<<TArr(<<IntV(1)>>), TArr(<<IntV(2), IntV(3)>>)>>)),
      Obj2(kA, Obj2(kP, IntV(1), kB, TArr(<<IntV(1), IntV(2)>>)), kB, IntV(2)),
      Obj1(kA, TArr(<<Obj1(kP, IntV(1)), Obj1(kP, IntV(12)), Obj1(kB, IntV(3))>>)),
      Obj1(kB, IntV(2)),
      Obj1(kA, TArr(<<Obj1(kP, IntV(1)), IntV(2)>>)),
      TArr(<<IntV(1), IntV(2)>>) }

\* the path of the root alone, of an element of the root, of two elements
RootOnly == Dollar
RootElement == <<"$", "[", "0", "]">>
TwoElements == <<"$", ".", "a", "[", "0", ",", "1", "]">>

FilteredPrice == Dot(Where(Dollar, kA, PriceClause), kP)

EditPaths ==
    { Dot(Dollar, kA), Dot(Dollar, kB), Dot(Dot(Dollar, kA), kP),
      Dot(Dot(Dollar, kA), kB), Quoted(Dollar, kA, kP), Quoted(Dollar, kA, kA),
      Quoted(Dollar, kA, kB), FilteredPrice, RootOnly, RootElement,
      TwoElements }
        \cup {At(Dollar, kA, i) : i \in EditIdx}

\* the document is a literal (arrays as long as their backing arrays) or
\* decoded (arrays grown by append)
InitEdit ==
    /\ fin \in EditTrees
    /\ path \in EditPaths
    /\ \E grow \in BOOLEAN :
          LET d == Alloc(<<>>, fin, grow) IN heap = d.h /\ root = d.v
    /\ last = NoOp /\ nops = 0
    /\ compiled = NotRun /\ fout = NotRun
    /\ cpc = Unused /\ ccur = Unused /\ cres = Unused

EditFrame == UNCHANGED <<root, fin, path, compiled, fout, cpc, ccur, cres>>

EditSet ==
    /\ Running
    /\ \E v \in Payloads :
          LET r == Set(heap, root, path, v, DocKeyOrder)
          IN  /\ heap' = r.h
              /\ last' = [op |-> "Set", path |-> path, value |-> v, e |-> r.e,
                          v |-> Nil, before |-> Tree, prev |-> Brief(last)]
    /\ nops' = nops + 1
    /\ EditFrame

EditDel ==
    /\ Running
    /\ LET r == Del(heap, root, path, DocKeyOrder)
       IN  /\ heap' = r.h
           /\ last' = [op |-> "Del", path |-> path, value |-> Nil, e |-> r.e,
                       v |-> Nil, before |-> Tree, prev |-> Brief(last)]
    /\ nops' = nops + 1
    /\ EditFrame

EditAppend ==
    /\ Running
    /\ \E v \in Payloads :
          LET r == AppendTo(heap, root, path, v)
          IN  /\ heap' = r.h
              /\ last' = [op |-> "Append", path |-> path, value |-> v, e |-> r.e,
                          v |-> Nil, before |-> Tree, prev |-> Brief(last)]
    /\ nops' = nops + 1
    /\ EditFrame

EditLookup ==
    /\ Running
    /\ LET r == JsonPathLookup(heap, root, path, DocKeyOrder)
       IN  /\ heap' = r.h
           /\ last' = [op |-> "Lookup", path |-> path, value |-> Nil, e |-> r.e,
                       v |-> TreeOf(r.h, r.v), before |-> Tree,
                       prev |-> Brief(last)]
    /\ nops' = nops + 1
    /\ EditFrame

NextEdit == EditSet \/ EditDel \/ EditAppend \/ EditLookup

SpecEdit == InitEdit /\ [][NextEdit]_vars

\* The place in a tree that a path of keys and single indices names: a
\* sequence of hops, each a key of an Object or an index of an Array.
HopKey(k) == [t |-> "key", key |-> k, idx |-> 0]
HopIdx(i) == [t |-> "idx", key |-> <<>>, idx |-> i]

PathHops ==
    {<<Dot(Dollar, k), <<HopKey(k)>>>> : k \in DocKeys}
        \cup {<<Dot(Dot(Dollar, k), j), <<HopKey(k), HopKey(j)>>>> :
                 k \in DocKeys, j \in DocKeys}
        \cup {<<Quoted(Dollar, k, j), <<HopKey(k), HopKey(j)>>>> :
                 k \in DocKeys, j \in DocKeys}
        \cup {<<At(Dollar, k, i), <<HopKey(k), HopIdx(i)>>>> :
                 k \in DocKeys, i \in EditIdx}

\* the hops of the path text p; none for a path of another form
Hops(p) == IF \E x \in PathHops : x[1] = p
           THEN (CHOOSE x \in PathHops : x[1] = p)[2] ELSE <<>>

\* ends in a key (plain or quoted), in an index
EndsInKey(p) == Hops(p) # <<>> /\ Hops(p)[Len(Hops(p))].t = "key"
EndsInIdx(p) == Hops(p) # <<>> /\ Hops(p)[Len(Hops(p))].t = "idx"
Front(hs) == SubSeq(hs, 1, Len(hs) - 1)

Missing == [t |-> "missing"]
\* position (1-based) of index i in an array of n elements; 0 when invalid
Pos(i, n) == IF i >= 0 /\ i < n THEN i + 1
             ELSE IF i < 0 /\ n + i >= 0 THEN n + i + 1 ELSE 0

\* the subtree of doc at the hops hs, Missing when a hop does not exist
RECURSIVE Sub(_, _)
Sub(doc, hs) ==
    IF hs = <<>> THEN doc
    ELSE LET hop == Head(hs)
         IN  IF hop.t = "key"
             THEN IF doc.t = "obj" /\ hop.key \in DOMAIN doc.o
                  THEN Sub(doc.o[hop.key], Tail(hs)) ELSE Missing
             ELSE IF doc.t = "arr" /\ Pos(hop.idx, Len(doc.a)) > 0
                  THEN Sub(doc.a[Pos(hop.idx, Len(doc.a))], Tail(hs)) ELSE Missing

\* doc with the subtree at hs replaced by t; a last key that is absent from
\* its Object is added
RECURSIVE Put(_, _, _)
Put(doc, hs, t) ==
    IF hs = <<>> THEN t
    ELSE LET hop == Head(hs)
         IN  IF hop.t = "key"
             THEN With(doc, hop.key,
                       Put(IF hop.key \in DOMAIN doc.o THEN doc.o[hop.key] ELSE Missing,
                           Tail(hs), t))
             ELSE TArr([doc.a EXCEPT ![Pos(hop.idx, Len(doc.a))] = Put(@, Tail(hs), t)])

\* the Object o without key; the array a without the element at position pos
Without(o, key) == TObj([x \in DOMAIN o.o \ {key} |-> o.o[x]])
RemoveAt(a, pos) == [j \in 1..(Len(a) - 1) |-> IF j < pos THEN a[j] ELSE a[j + 1]]

\* doc without what the last hop of hs names
Drop(doc, hs) ==
    LET par == Sub(doc, Front(hs))
        hop == hs[Len(hs)]
    IN  Put(doc, Front(hs),
            IF hop.t = "key" THEN Without(par, hop.key)
            ELSE TArr(RemoveAt(par.a, Pos(hop.idx, Len(par.a)))))

\* the call returned an error value (it did not fault)
Refused(e) == e.k \in {"error", "NotExist", "ErrGetFromNullObj"}

\* the positions of the elements of the array a (of trees) that the filter
\* step [?(clause)] selects
SelectedBy(a, clause) ==
    { i \in 1..Len(a) :
        Once(Alloc(<<>>, TArr(<<a[i]>>), FALSE), LAMBDA d :
            Once(get_filtered(d.h, d.v, d.v, clause, DocKeyOrder), LAMBDA r :
                r.e = NoErr /\ r.v.len = 1)) }

IsArrayOfObjects(t) == t.t = "arr" /\ \A i \in 1..Len(t.a) : t.a[i].t = "obj"

\* the array a with key set to v in the elements at the positions in sel
Broadcast(a, sel, key, v) ==
    TArr([i \in 1..Len(a) |-> IF i \in sel THEN With(a[i], key, v) ELSE a[i]])

\* C11: Set on a path whose last step is the key k, reached at an Array of
\* Objects (directly, or through a filter step that selects some of its
\* elements), returns nil and sets k to the payload in each of those
\* elements and changes nothing else; as many elements hold the payload at k
\* afterwards as the filter selected.
C11_SetBroadcast ==
    (last.op = "Set" /\ last.before.t = "obj") =>
        /\ \A k \in DocKeys, j \in DocKeys :
              ( /\ last.path = Dot(Dot(Dollar, k), j)
                /\ IsArrayOfObjects(Sub(last.before, <<HopKey(k)>>)) ) =>
                    /\ last.e = NoErr
                    /\ Tree = With(last.before, k,
                                   Broadcast(last.before.o[k].a,
                                             1..Len(last.before.o[k].a), j, last.value))
        /\ ( /\ last.path = FilteredPrice
             /\ IsArrayOfObjects(Sub(last.before, <<HopKey(kA)>>)) ) =>
                 LET a == last.before.o[kA].a
                     sel == SelectedBy(a, PriceClause)
                 IN  /\ last.e = NoErr
                     /\ Tree = With(last.before, kA, Broadcast(a, sel, kP, last.value))
                     /\ Cardinality(sel) =
                            Cardinality({i \in 1..Len(a) :
                                            /\ kP \in DOMAIN Tree.o[kA].a[i].o
                                            /\ Tree.o[kA].a[i].o[kP] = last.value})

\* C12: Del of $.k[i], for an array of n elements under the key k of the
\* root Object and every i with -n <= i < n, returns nil and leaves under k
\* the array without the element at the position of i, the others in order,
\* and every other key of the Object as it was.
C12_DelFromArray ==
    (last.op = "Del" /\ EndsInIdx(last.path)) =>
        LET a == Sub(last.before, Front(Hops(last.path)))
        IN  (a.t = "arr" /\ Sub(last.before, Hops(last.path)) # Missing) =>
                /\ last.e = NoErr
                /\ Tree = Drop(last.before, Hops(last.path))

\* C13: Del of a path that ends in a key (plain or quoted) of an Object:
\* when the key is present the call returns nil and the tree is the one
\* before without that entry, and a Lookup of the path then yields
\* NotExist; when it is absent the call returns an error and the tree is
\* as before.
C13_DelFromObject ==
    /\ (last.op = "Del" /\ EndsInKey(last.path)) =>
          LET par == Sub(last.before, Front(Hops(last.path)))
          IN  /\ (par.t = "obj" /\ Sub(last.before, Hops(last.path)) # Missing) =>
                     last.e = NoErr /\ Tree = Drop(last.before, Hops(last.path))
              /\ (par = Missing \/
                  (par.t = "obj" /\ Sub(last.before, Hops(last.path)) = Missing)) =>
                     Refused(last.e) /\ Tree = last.before
    /\ ( /\ last.op = "Lookup" /\ last.prev.op = "Del" /\ last.prev.e = NoErr
         /\ EndsInKey(last.path)
         /\ Sub(last.prev.before, Front(Hops(last.path))).t = "obj" ) =>
             last.e.k = "NotExist"

C13_Witness ==
    /\ last.op = "Lookup" /\ last.prev.op = "Del" /\ last.prev.e = NoErr
    /\ last.path = Quoted(Dollar, kA, kP)
    /\ Sub(last.prev.before, <<HopKey(kA), HopKey(kP)>>) = IntV(1)
    /\ Sub(last.before, <<HopKey(kA), HopKey(kB)>>) # Missing
    /\ last.e = NotExist(kP)

\* C14: Append on a path of keys and single indices (of either sign) that
\* reaches an array A returns nil, leaves at that place A followed by the
\* payload and everything else as before, and a Lookup of the path then
\* returns A followed by the payload.
C14_AppendToArray ==
    /\ (last.op = "Append" /\ Hops(last.path) # <<>>) =>
          LET A == Sub(last.before, Hops(last.path))
          IN  A.t = "arr" =>
                 /\ last.e = NoErr
                 /\ Tree = Put(last.before, Hops(last.path),
                               TArr(Append(A.a, last.value)))
    /\ ( /\ last.op = "Lookup" /\ last.prev.op = "Append" /\ last.prev.e = NoErr
         /\ Hops(last.path) # <<>>
         /\ Sub(last.prev.before, Hops(last.path)).t = "arr" ) =>
             /\ last.e = NoErr
             /\ last.v = TArr(Append(Sub(last.prev.before, Hops(last.path)).a,
                                     last.prev.value))

\* key is a key of no Object of the tree t, nor of its elements when t is
\* an Array
RECURSIVE KeyNowhere(_, _)
KeyNowhere(t, key) ==
    IF t.t = "obj" THEN key \notin DOMAIN t.o
    ELSE IF t.t = "arr" THEN \A i \in 1..Len(t.a) : KeyNowhere(t.a[i], key)
    ELSE TRUE

\* C15: Append on $.k['s'] where root[k] is an Object without s returns nil
\* and leaves root[k][s] the payload, every other entry as before; Append on
\* a path whose last, plain key is absent from its container returns an
\* error.
C15_AppendToObject ==
    last.op = "Append" =>
        /\ \A k \in DocKeys, sub \in DocKeys :
              ( /\ last.path = Quoted(Dollar, k, sub)
                /\ Sub(last.before, <<HopKey(k)>>).t = "obj"
                /\ Sub(last.before, <<HopKey(k), HopKey(sub)>>) = Missing ) =>
                    /\ last.e = NoErr
                    /\ Tree = Put(last.before, <<HopKey(k), HopKey(sub)>>, last.value)
        /\ \A k \in DocKeys :
              /\ (last.path = Dot(Dollar, k) /\ Sub(last.before, <<HopKey(k)>>) = Missing)
                    => Refused(last.e)
              /\ \A j \in DocKeys :
                    ( /\ last.path = Dot(Dot(Dollar, k), j)
                      /\ Sub(last.before, <<HopKey(k)>>) # Missing
                      /\ KeyNowhere(Sub(last.before, <<HopKey(k)>>), j) ) =>
                          Refused(last.e)

\* C29: on every tree and every path that Compile accepts, Set, Del and
\* Append return nil or an error and never fault: the path $ of no step, an
\* element of an array at the root, a negative last index, a last step of
\* several indexes and a last key step under an array included.
C29_MutationTotal ==
    (last.op \in {"Set", "Del", "Append"} /\ Compile(last.path).ok)
        => ~IsPanic(last.e)

\* C30: when Set, Del or Append returns an error the tree is as it was
\* before the call, also when a Set over the elements of an array fails at
\* a later element.
C30_AllOrNothing ==
    (last.op \in {"Set", "Del", "Append"} /\ Refused(last.e))
        => Tree = last.before

-----------------------------------------------------------------------------
(* SpecLookup: NCallers callers run Lookup with one compiled program on    *)
(* one document, a step of the loop of Lookup at a time, in any order.     *)

NCallers == 2
Callers == 1..NCallers

Between(p, k, i, j) ==
    p \o <<".">> \o k \o <<"[">> \o IntToStr(i) \o <<":">> \o IntToStr(j) \o <<"]">>
Both(p, k, i, j) ==
    p \o <<".">> \o k \o <<"[">> \o IntToStr(i) \o <<",">> \o IntToStr(j) \o <<"]">>

AnyPriceClause == <<"@", ".", "p", " ", ">", " ", "0">>

LookupPaths ==
    DocPaths \cup { Where(Dollar, kA, PriceClause), Where(Dollar, kA, AnyPriceClause),
                    Between(Dollar, kA, 0, 1),
                    Both(Dollar, kA, 2, 0), Dot(At(Dollar, kA, 1), kP) }

\* the orders in which a range over a map may visit the keys
KeyOrders == {<<kA, kB, kP>>, <<kP, kB, kA>>}

InitLookup ==
    /\ fin \in DocTrees
    /\ LET d == Alloc(<<>>, fin, FALSE) IN heap = d.h /\ root = d.v
    /\ path \in LookupPaths
    /\ compiled = [done |-> TRUE, r |-> Compile(path)]
    /\ compiled.r.ok
    /\ cpc = [c \in Callers |-> 1]
    /\ ccur = [c \in Callers |-> root]
    /\ cres = [c \in Callers |-> NotRun]
    /\ last = NoOp /\ nops = 0 /\ fout = NotRun

LookupFrame == UNCHANGED <<root, fin, path, compiled, last, nops, fout>>

\* caller c runs one iteration of the loop of Lookup
LookupStepOf(c) ==
    /\ ~cres[c].done
    /\ cpc[c] <= Len(compiled.r.steps)
    /\ \E ko \in KeyOrders :
          LET r == LookupStep(heap, ccur[c], root, compiled.r.steps[cpc[c]], ko)
          IN  /\ heap' = r.h
              /\ IF r.ret
                 THEN /\ cres' = [cres EXCEPT ![c] =
                                     [done |-> TRUE, v |-> TreeOf(r.h, r.v), e |-> r.e]]
                      /\ UNCHANGED <<cpc, ccur>>
                 ELSE /\ ccur' = [ccur EXCEPT ![c] = r.v]
                      /\ cpc' = [cpc EXCEPT ![c] = @ + 1]
                      /\ UNCHANGED cres
    /\ LookupFrame

\* caller c leaves the loop: return obj, nil
LookupReturn(c) ==
    /\ ~cres[c].done
    /\ cpc[c] > Len(compiled.r.steps)
    /\ cres' = [cres EXCEPT ![c] =
                   [done |-> TRUE, v |-> TreeOf(heap, ccur[c]), e |-> NoErr]]
    /\ UNCHANGED <<heap, cpc, ccur>>
    /\ LookupFrame

NextLookup == \E c \in Callers : LookupStepOf(c) \/ LookupReturn(c)

SpecLookup == InitLookup /\ [][NextLookup]_vars

\* what Lookup returns when it runs alone on the document, with the key
\* order ko
Alone(ko) ==
    Once(Alloc(<<>>, fin, FALSE), LAMBDA d :
    Once(Lookup(d.h, compiled.r.steps, d.v, ko), LAMBDA r :
         [done |-> TRUE, v |-> TreeOf(r.h, r.v), e |-> r.e]))

\* C2: Lookup leaves the tree and the program as they were, whether it
\* succeeds or fails, and callers that share a program and a document each
\* get a result that Lookup run alone gives.
C2_LookupReadOnly ==
    /\ Tree = fin
    /\ compiled.r = Compile(path)
    /\ \A c \in Callers :
          cres[c].done => \E ko \in KeyOrders : cres[c] = Alone(ko)

C2_Witness ==
    \E c \in Callers, d \in Callers :
        /\ cres[c].done /\ cres[c].e = NoErr /\ cres[c].v.t = "arr"
        /\ ~cres[d].done /\ cpc[d] = 2
        /\ path = Dot(Where(Dollar, kA, PriceClause), kP)

\* C16: two runs of Compile and Lookup with one path text on one unchanged
\* document return the same: the same value with the same order of
\* elements, or the same error; also for a filter step on an Object.
C16_Deterministic ==
    /\ compiled.r = Compile(path)
    /\ \A c \in Callers, d \in Callers :
          (cres[c].done /\ cres[d].done) => cres[c] = cres[d]

-----------------------------------------------------------------------------
(* SpecQuery: JsonPathLookup, Compile and then Lookup, of one path text on *)
(* one document: quoted keys, script steps and wildcards.                  *)

kI == <<"i">>
kXY == <<"x", ".", "y">>
kCS == <<"c", ":", "/", "d">>
QueryKeys == {kA, kB, kP, kI, kXY, kCS}

QueryTrees ==
    { TObj((kA :> TObj((kP :> StrV(kB)) @@ (kB :> IntV(9)) @@ (kXY :> IntV(5))))
               @@ (kXY :> TArr(<<IntV(5), IntV(6)>>)) @@ (kI :> IntV(1))),
      TObj((kA :> TArr(<<IntV(5), IntV(6), IntV(7)>>))
               @@ (kI :> IntV(1)) @@ (kP :> StrV(kB))),
      TObj((kA :> TArr(<<IntV(5), IntV(6)>>)) @@ (kI :> IntV(-1))
               @@ (kCS :> TObj(kCS :> IntV(3)))),
      TObj((kA :> TArr(<<IntV(5), IntV(6)>>)) @@ (kI :> FloatV(1))
               @@ (kP :> TObj(kA :> IntV(4)))),
      TObj((kA :> TNil) @@ (kI :> IntV(0))),
      TObj((kA :> TArr(<<TArr(<<IntV(5), IntV(6)>>), TArr(<<IntV(7)>>)>>))
               @@ (kI :> IntV(0))) }

\* path texts: p.['s'], p[i], p.k[(E)], p..k, p.*
QuotedOnly(p, s) == p \o <<".", "[", "'">> \o s \o <<"'", "]">>
Nth(p, i) == p \o <<"[">> \o IntToStr(i) \o <<"]">>
Script(p, k, E) == p \o <<".">> \o k \o <<"[", "(">> \o E \o <<")", "]">>
Deep(p, k) == p \o <<".", ".">> \o k
Star(p) == p \o <<".", "*">>

\* the expressions of the script steps
FromHere(k) == <<"@", ".">> \o k
FromRoot(k) == <<"$", ".">> \o k
ScriptExprs == {FromHere(kP), FromHere(kI), FromRoot(kI), FromRoot(kP)}

\* a path with a wildcard step, and the path without it
WildPairs ==
    { <<Deep(Dollar, kA), Dot(Dollar, kA)>>,
      <<Deep(Dot(Dollar, kA), kP), Dot(Dot(Dollar, kA), kP)>>,
      <<Dot(Star(Dollar), kA), Dot(Dollar, kA)>>,
      <<Star(Dot(Dollar, kA)), Dot(Dollar, kA)>>,
      <<Star(Dollar), Dollar>> }

\* paths of key steps, plain or with a quoted sub-key, and of steps with a
\* single index, with or without a key before it
QuotedPaths ==
    {Quoted(Dollar, kA, s) : s \in {kP, kB, kXY, kI}}
        \cup {Quoted(Dollar, kCS, kCS), Quoted(Dollar, kB, kP)}
        \cup {QuotedOnly(Dollar, s) : s \in {kXY, kCS, kP, kB}}
        \cup {Nth(QuotedOnly(Dollar, kXY), i) : i \in {1, -1, 2}}
KeyAndIndexPaths ==
    {w[2] : w \in WildPairs}
        \cup {At(Dollar, kA, i) : i \in {0, -1, 2}}
        \cup {Nth(At(Dollar, kA, 0), 1), Dot(Dollar, kB), Dot(At(Dollar, kA, 0), kP)}
ExplicitPaths == QuotedPaths \cup KeyAndIndexPaths

\* paths with a script, a wildcard, a slice, a list of indexes or a filter
ScriptPaths ==
    {Script(Dollar, kA, E) : E \in ScriptExprs} \cup {Script(Dollar, kB, FromRoot(kI))}
SlicePaths ==
    {Between(Dollar, kA, 0, 1), Between(Dollar, kA, 3, 1), Between(Dollar, kA, 2, 0)}
OtherPaths ==
    ScriptPaths \cup {w[1] : w \in WildPairs} \cup SlicePaths
        \cup {Both(Dollar, kA, 0, 1), Where(Dollar, kA, AnyPriceClause)}

QueryPaths == ExplicitPaths \cup OtherPaths

InitQuery ==
    /\ fin \in QueryTrees
    /\ path \in QueryPaths
    /\ LET d == Alloc(<<>>, fin, FALSE) IN heap = d.h /\ root = d.v
    /\ compiled = NotRun /\ fout = NotRun /\ last = NotRun
    /\ nops = 0
    /\ cpc = Unused /\ ccur = Unused /\ cres = Unused

QueryFrame == UNCHANGED <<fin, root, path, nops, cpc, ccur, cres>>

\* c, err := Compile(path)
QueryCompile ==
    /\ ~compiled.done
    /\ compiled' = [done |-> TRUE, r |-> Compile(path)]
    /\ UNCHANGED <<heap, fout, last>>
    /\ QueryFrame

\* return c.Lookup(obj); the error of Compile is returned as it is
QueryLookup ==
    /\ compiled.done /\ ~fout.done
    /\ LET r == IF compiled.r.ok
                THEN Lookup(heap, compiled.r.steps, root, DocKeyOrder)
                ELSE R(heap, Nil, compiled.r.err)
       IN  /\ heap' = r.h
           /\ fout' = [done |-> TRUE, v |-> TreeOf(r.h, r.v), e |-> r.e]
    /\ UNCHANGED <<compiled, last>>
    /\ QueryFrame

\* filter_get_from_explicit_path(obj, path), its result kept in last
QueryExplicit ==
    /\ ~last.done
    /\ LET r == filter_get_from_explicit_path(heap, root, path)
       IN  /\ heap' = r.h
           /\ last' = [done |-> TRUE, v |-> TreeOf(r.h, r.v), e |-> r.e]
    /\ UNCHANGED <<compiled, fout>>
    /\ QueryFrame

NextQuery == QueryCompile \/ QueryLookup \/ QueryExplicit

SpecQuery == InitQuery /\ [][NextQuery]_vars

\* what Lookup over the steps gives on the document: the tree and the error
Answer(steps) ==
    Once(Lookup(heap, steps, root, DocKeyOrder), LAMBDA r :
        [done |-> TRUE, v |-> TreeOf(r.h, r.v), e |-> r.e])
KeyStep(k) == Step("key", k, ArgNil)

Resolved(here, E) ==
    IF \E k \in QueryKeys : E = FromHere(k)
    THEN Sub(here, <<HopKey(CHOOSE k \in QueryKeys : E = FromHere(k))>>)
    ELSE IF \E k \in QueryKeys : E = FromRoot(k)
    THEN Sub(fin, <<HopKey(CHOOSE k \in QueryKeys : E = FromRoot(k))>>)
    ELSE Missing

\* C19: Lookup of $.k[(E)] resolves k to C and E to r (from C when E starts
\* with @., from the root when it starts with $.) and returns C[r] by key
\* when r is a String, the element of C at the index r when r is an Integer,
\* and an error for any other r and when k or E does not resolve.
C19_ScriptStep ==
    fout.done =>
        \A k \in QueryKeys, E \in ScriptExprs :
            path = Script(Dollar, k, E) =>
                LET C == Sub(fin, <<HopKey(k)>>)
                    r == IF C = Missing THEN Missing ELSE Resolved(C, E)
                    hop == IF r.t = "string" THEN <<HopKey(r.s)>>
                           ELSE IF r.t = "int" THEN <<HopIdx(r.n)>> ELSE <<>>
                IN  IF hop # <<>> /\ Sub(C, hop) # Missing
                    THEN fout.e = NoErr /\ fout.v = Sub(C, hop)
                    ELSE Refused(fout.e) /\ fout.v = Nil

\* C20: Lookup over steps with a wildcard step among them returns what
\* Lookup over the steps without the wildcard returns; a wildcard at the end
\* returns the value reached before it.
C20_WildcardPassThrough ==
    fout.done =>
        \A w \in WildPairs :
            path = w[1] =>
                Once(JsonPathLookup(heap, root, w[2], DocKeyOrder), LAMBDA r :
                    fout.e = r.e /\ fout.v = TreeOf(r.h, r.v))
\* C27: filter_get_from_explicit_path returns an error for every path with
\* a slice, a list of indexes, a filter, a script or a wildcard step, and for
\* every path of key steps (plain or with a quoted sub-key) and single-index
\* steps (with or without a key) what Compile and Lookup return.
C27_ExplicitPathEvaluator ==
    last.done =>
        /\ path \in OtherPaths => Refused(last.e) /\ last.v = Nil
        /\ (path \in ExplicitPaths /\ fout.done) =>
              last.v = fout.v /\ last.e.k = fout.e.k

\* C28: Lookup returns a value or an error and never faults, whatever the
\* tree, a null under an index, slice or filter step and a slice whose
\* lower bound is above its upper bound included; with an error the value
\* returned is nil.
C28_LookupTotal ==
    fout.done =>
        /\ ~IsPanic(fout.e)
        /\ fout.e # NoErr => fout.v = Nil

-----------------------------------------------------------------------------
(* SpecEval: one call of a step helper (get_idx, get_range, get_key,       *)
(* get_filtered) on an array of at most MaxLen elements, or on an object.  *)

MaxLen == 3

kK == <<"k">>
kJ == <<"j">>
EvalKeys == {kK, kJ}
KeyOrder == <<kJ, kK>>

EvalElems ==
    { TNil, TArr(<<TObj(kK :> IntV(1))>>), TObj(kK :> IntV(1)), TObj(kK :> IntV(12)),
      TObj(kK :> StrV(<<"b">>)), TObj(kJ :> IntV(7)), TObj(kK :> TNil) }
EvalArrays == {TArr(a) : a \in UNION {[1..n -> EvalElems] : n \in 0..MaxLen}}
EvalObjects == {e \in EvalElems : e.t = "obj"}

\* the texts c of the clauses @.k <op> c
FilterConsts == {<<"1", "0">>, <<"5">>, <<"b">>}
Clause(key, op, c) == <<"@", ".">> \o key \o <<" ">> \o op \o <<" ">> \o c

InitEval ==
    /\ fin \in EvalArrays \cup EvalObjects
    /\ LET d == Alloc(<<>>, fin, FALSE) IN heap = d.h /\ root = d.v
    /\ fout = NotRun
    /\ path = <<>> /\ compiled = NotRun /\ last = Unused /\ nops = 0
    /\ cpc = Unused /\ ccur = Unused /\ cres = Unused

\* what a call returned: the tree of the value and the error
Returned(fn, arg, r) ==
    [done |-> TRUE, fn |-> fn, arg |-> arg, v |-> TreeOf(r.h, r.v), e |-> r.e]

EvalFrame == UNCHANGED <<fin, root, path, compiled, last, nops, cpc, ccur, cres>>

IdxRange == -(MaxLen + 1)..MaxLen
OptBounds == {OptNil} \cup {OptInt(i) : i \in IdxRange}

DoGetIdx ==
    /\ ~fout.done /\ fin.t = "arr"
    /\ \E idx \in IdxRange :
          LET r == get_idx(heap, root, idx)
          IN  heap' = r.h /\ fout' = Returned("get_idx", [idx |-> idx], r)
    /\ EvalFrame

DoGetRange ==
    /\ ~fout.done /\ fin.t = "arr"
    /\ \E frm \in OptBounds, to \in OptBounds :
          LET r == get_range(heap, root, frm, to)
          IN  heap' = r.h /\ fout' = Returned("get_range", [frm |-> frm, to |-> to], r)
    /\ EvalFrame

DoGetKey ==
    /\ ~fout.done
    /\ \E key \in EvalKeys :
          LET r == get_key(heap, root, key)
          IN  heap' = r.h /\ fout' = Returned("get_key", [key |-> key], r)
    /\ EvalFrame

DoGetFiltered ==
    /\ ~fout.done /\ fin.t = "arr"
    /\ \E key \in EvalKeys, op \in Ops, c \in FilterConsts :
          LET r == get_filtered(heap, root, root, Clause(key, op, c), KeyOrder)
          IN  /\ heap' = r.h
              /\ fout' = Returned("get_filtered", [key |-> key, op |-> op, c |-> c], r)
    /\ EvalFrame

\* the operands P of the clauses P and P exists: a key, a key with an index
Operands == {<<"@", ".">> \o key : key \in EvalKeys}
                \cup {<<"@", ".">> \o key \o <<"[", "0", "]">> : key \in EvalKeys}
WithExists(P) == P \o <<" ">> \o Exists

\* get_filtered with the clause P, or with the clause P exists
DoFilterOperand ==
    /\ ~fout.done /\ fin.t = "arr"
    /\ \E P \in Operands, explicit \in BOOLEAN :
          LET r == get_filtered(heap, root, root,
                                IF explicit THEN WithExists(P) ELSE P, KeyOrder)
          IN  /\ heap' = r.h
              /\ fout' = Returned("filter_operand",
                                  [lp |-> P, explicit |-> explicit], r)
    /\ EvalFrame

NextEval == DoGetIdx \/ DoGetRange \/ DoGetKey \/ DoGetFiltered \/ DoFilterOperand

SpecEval == InitEval /\ [][NextEval]_vars

\* the call made in this state
Called(fn) == fout.done /\ fout.fn = fn

\* the key resolves in the tree e: e is an Object holding it, or an Array
\* with an element in which it resolves
RECURSIVE Resolves(_, _)
Resolves(e, key) ==
    \/ e.t = "obj" /\ key \in DOMAIN e.o
    \/ e.t = "arr" /\ \E i \in 1..Len(e.a) : Resolves(e.a[i], key)

\* the elements of a (a sequence of trees) in which key resolves, in order
Resolving(a, key) == SelectSeq(a, LAMBDA e : Resolves(e, key))

\* what key resolves to in e
RECURSIVE ValueAt(_, _)
ValueAt(e, key) ==
    IF e.t = "obj" THEN e.o[key]
    ELSE TArr([i \in 1..Len(Resolving(e.a, key)) |->
                  ValueAt(Resolving(e.a, key)[i], key)])

\* the elements i of the array at root that the clause @.key op c is to
\* select: key resolves in the element and the comparison holds
Selected(key, op, c) ==
    { i \in 1..Len(fin.a) :
        /\ Resolves(fin.a[i], key)
        /\ Once(get_key(heap, Elem(heap, root, i - 1), key), LAMBDA r :
                cmpAny(r.h, r.v, StrV(c), op).b) }

\* the elements of a at the positions in keep, in order
RECURSIVE Keep(_, _, _)
Keep(a, keep, i) ==
    IF i > Len(a) THEN <<>>
    ELSE (IF i \in keep THEN <<a[i]>> ELSE <<>>) \o Keep(a, keep, i + 1)

\* C5: a filter step with the clause @.k <op> c on an array returns exactly
\* the elements in which @.k resolves and compares as asked, in their order;
\* an element in which @.k does not resolve is never selected.
C5_FilterSelection ==
    Called("get_filtered") =>
        /\ fout.e = NoErr
        /\ fout.v = TArr(Keep(fin.a, Selected(fout.arg.key, fout.arg.op, fout.arg.c), 1))

\* C6: for an array of n >= 1 elements and k in 1..n, get_idx at -k returns
\* the element at n - k; an index >= n or < -n is an error, with no element.
C6_NegativeIndexLaw ==
    Called("get_idx") =>
        LET n == Len(fin.a)
            idx == fout.arg.idx
        IN  /\ (idx >= n \/ idx < 0 - n) => fout.e.k = "error" /\ fout.v = Nil
            /\ (idx < 0 /\ idx >= 0 - n) => fout.e = NoErr /\ fout.v = fin.a[n + idx + 1]
            /\ (idx >= 0 /\ idx < n) => fout.e = NoErr /\ fout.v = fin.a[idx + 1]

C6_Witness ==
    /\ Called("get_idx") /\ Len(fin.a) = MaxLen /\ fout.arg.idx = 0 - MaxLen
    /\ fout.e = NoErr /\ fout.v = fin.a[1] /\ fin.a[1] # fin.a[MaxLen]

\* the bounds as the slice law states them: f from frm, the exclusive t from to
LowerOf(frm, n) == IF frm.t = "nil" THEN 0 ELSE IF frm.n < 0 THEN n + frm.n ELSE frm.n
UpperOf(to, n) == IF to.t = "nil" THEN n ELSE IF to.n < 0 THEN n + to.n + 1 ELSE to.n + 1

\* C7: get_range on an array of n >= 0 elements returns the elements f..t-1
\* whenever 0 <= f <= t <= n, and an error exactly when f or t is outside
\* 0..n.
C7_SliceSemantics ==
    Called("get_range") =>
        LET n == Len(fin.a)
            f == LowerOf(fout.arg.frm, n)
            t == UpperOf(fout.arg.to, n)
        IN  /\ (0 <= f /\ f <= t /\ t <= n) =>
                   fout.e = NoErr /\ fout.v = TArr(SubSeq(fin.a, f + 1, t))
            /\ fout.e.k = "error" <=> (f \notin 0..n \/ t \notin 0..n)

\* C8: get_key on an array returns the values of the key in the elements in
\* which it resolves, in order, and NotExist carrying the key when there is
\* none; on an Object without the key it returns NotExist carrying the key.
C8_KeyOverArray ==
    Called("get_key") =>
        LET key == fout.arg.key
        IN  IF Resolves(fin, key)
            THEN fout.e = NoErr /\ fout.v = ValueAt(fin, key)
            ELSE fout.e = NotExist(key) /\ fout.v = Nil

C8_Witness ==
    /\ Called("get_key") /\ fin.t = "arr" /\ Len(fin.a) = MaxLen
    /\ fout.e = NoErr /\ Len(fout.v.a) = MaxLen - 1
    /\ ~Resolves(fin.a[2], fout.arg.key)

\* the operand P resolves in the tree e to a value that is not null: its
\* key resolves, and with an index the value is an array with a first
\* element
ResolvesNonNull(e, P) ==
    \E key \in EvalKeys :
        \/ /\ P = <<"@", ".">> \o key
           /\ Resolves(e, key) /\ ValueAt(e, key) # Nil
        \/ /\ P = <<"@", ".">> \o key \o <<"[", "0", "]">>
           /\ Resolves(e, key) /\ ValueAt(e, key).t = "arr"
           /\ Len(ValueAt(e, key).a) > 0 /\ ValueAt(e, key).a[1] # Nil

\* C17: a clause that is a single operand P parses to (P, exists, empty),
\* and a filter step with it returns, as with the clause P exists, exactly
\* the elements in which P resolves to a value that is not null; an element
\* in which P does not resolve is left out and the step does not fail.
C17_DefaultExists ==
    Called("filter_operand") =>
        /\ parse_filter(fout.arg.lp) =
               [lp |-> fout.arg.lp, op |-> Exists, rp |-> <<>>, err |-> NoErr]
        /\ parse_filter(WithExists(fout.arg.lp)) = parse_filter(fout.arg.lp)
        /\ fout.e = NoErr
        /\ fout.v = TArr(SelectSeq(fin.a, LAMBDA e : ResolvesNonNull(e, fout.arg.lp)))


-----------------------------------------------------------------------------
(* SpecParse: parse_token and Compile on one token, tokenize on one path   *)
(* text.                                                                   *)

MaxAtoms == 3
MaxSideLen == 2
MaxQueryLen == 5
MaxSteps == 2

\* the pieces the interiors of the bracket groups are made of
Atoms == { <<"'">>, <<"?">>, <<"?", "(">>, <<"(">>, <<")">>, <<"@", ".">>,
           <<":">>, <<"*">>, <<"1">>, <<"a">>, <<",">> }

RECURSIVE Flatten(_)
Flatten(ss) == IF ss = <<>> THEN <<>> ELSE Head(ss) \o Flatten(Tail(ss))

InteriorsOf(n) == {Flatten(f) : f \in [1..n -> Atoms]}
Interiors == UNION {InteriorsOf(n) : n \in 1..MaxAtoms}

Group(key, I) == key \o <<"[">> \o I \o <<"]">>

\* the two sides of a slice interior: spaces, signs, digits and a letter
SideChars == {" ", "1", "-", "a"}
Sides == UNION {[1..n -> SideChars] : n \in 0..MaxSideLen}
SliceInterior(l, r) == l \o <<":">> \o r

PlainTokens == {<<"*">>, <<"a">>, <<"a", "*">>, <<"*", "a">>, <<"'", "a", "'">>}

\* a token, with the parts it was written from: key[in], and in = l:r
Plain(t) ==
    [k |-> "plain", s |-> t, key |-> t, in |-> <<>>, l |-> <<>>, r |-> <<>>,
     steps |-> <<>>]
Grouped(key, I) ==
    [k |-> "group", s |-> Group(key, I), key |-> key, in |-> I,
     l |-> <<>>, r |-> <<>>, steps |-> <<>>]
Sliced(key, l, r) ==
    [k |-> "slice", s |-> Group(key, SliceInterior(l, r)), key |-> key,
     in |-> SliceInterior(l, r), l |-> l, r |-> r, steps |-> <<>>]

GroupTokens ==
    {Grouped(kA, I) : I \in Interiors}
        \cup {Grouped(<<>>, I) : I \in InteriorsOf(1) \cup InteriorsOf(2)}
SliceTokens == {Sliced(kA, l, r) : l \in Sides, r \in Sides}

\* a path text: $ and then any characters of QueryChars
QueryChars == {".", "*", "a", "[", "]"}
AnyQuery(t) ==
    [k |-> "query", s |-> <<"$">> \o t, key |-> <<>>, in |-> <<>>,
     l |-> <<>>, r |-> <<>>, steps |-> <<>>]
AnyQueries ==
    {AnyQuery(t) : t \in UNION {[1..n -> QueryChars] : n \in 0..MaxQueryLen}}

\* a path text written as $ and then steps, each after one dot: a step is a
\* name, a name with a bracket group, or a bracket group
GroupInteriors ==
    { <<"1">>, <<".">>, <<" ">>, <<"a", ".", "b">>, <<"a", " ", ".">>,
      <<"\\", "]", ".", "a">>, <<"'", "a", ".", "b", "'">>,
      <<"[", ".">>, <<".", ".">>,
      <<"?", "(", "@", ".", "a", " ", ">", " ", "1", ")">> }
StepTexts ==
    {kA, kB} \cup {Group(key, I) : key \in {<<>>, kA}, I \in GroupInteriors}

RECURSIVE Dotted(_)
Dotted(steps) ==
    IF steps = <<>> THEN <<>> ELSE <<".">> \o Head(steps) \o Dotted(Tail(steps))

Stepped(steps) ==
    [k |-> "stepped", s |-> <<"$">> \o Dotted(steps), key |-> <<>>,
     in |-> <<>>, l |-> <<>>, r |-> <<>>, steps |-> steps]
SteppedQueries ==
    {Stepped(f) : f \in UNION {[1..n -> StepTexts] : n \in 1..MaxSteps}}

InitParse ==
    /\ \/ \E t \in PlainTokens : fin = Plain(t)
       \/ fin \in GroupTokens
       \/ fin \in SliceTokens
       \/ fin \in AnyQueries
       \/ fin \in SteppedQueries
    /\ fout = NotRun
    /\ heap = <<>> /\ root = Unused /\ path = <<>> /\ compiled = NotRun
    /\ last = Unused /\ nops = 0
    /\ cpc = Unused /\ ccur = Unused /\ cres = Unused

ParseFrame ==
    UNCHANGED <<fin, heap, root, path, compiled, last, nops, cpc, ccur, cres>>

\* op, key, args, err := parse_token(token)
DoParseToken ==
    /\ ~fout.done /\ fin.k \in {"plain", "group", "slice"}
    /\ fout' = [done |-> TRUE, fn |-> "parse_token", r |-> parse_token(fin.s)]
    /\ ParseFrame

\* Compile of the path $.token
DoCompileToken ==
    /\ ~fout.done /\ fin.k \in {"plain", "group", "slice"}
    /\ fout' = [done |-> TRUE, fn |-> "Compile",
                r |-> Compile(<<"$", ".">> \o fin.s)]
    /\ ParseFrame

\* tokens, err := tokenize(query)
DoTokenize ==
    /\ ~fout.done /\ fin.k \in {"query", "stepped"}
    /\ fout' = [done |-> TRUE, fn |-> "tokenize", r |-> tokenize(fin.s)]
    /\ ParseFrame

NextParse == DoParseToken \/ DoCompileToken \/ DoTokenize

SpecParse == InitParse /\ [][NextParse]_vars

ParsedToken == fout.done /\ fout.fn = "parse_token"
CompiledToken == fout.done /\ fout.fn = "Compile"

BeginsAndEndsWithQuote(I) == Len(I) >= 2 /\ I[1] = "'" /\ I[Len(I)] = "'"
\* the text in parentheses in I, trimmed; <<>> when there is none
InParens(I) ==
    IF Index(I, "(") >= 0 /\ Index(I, "(") < LastIndex(I, ")")
    THEN Trim(Slice(I, Index(I, "(") + 1, LastIndex(I, ")")))
    ELSE <<>>
RootedClause(c) == HasPrefix(c, <<"@", ".">>) \/ HasPrefix(c, <<"$", ".">>)

\* the operation of the token key[I] by the order of precedence
OpOf(I) ==
    IF BeginsAndEndsWithQuote(I) THEN "key"
    ELSE IF Contains(I, "?") THEN "filter"
    ELSE IF RootedClause(InParens(I)) THEN "expression"
    ELSE IF Contains(I, ":") THEN "range"
    ELSE IF I = <<"*">> THEN "range"
    ELSE "idx"

\* C22: parse_token gives every token one operation by the order of
\* precedence: * is scan; a token without bracket is key; an interior in
\* single quotes is key with the quoted text as sub-key; else an interior
\* with ? is filter, an error unless its clause starts with @. or $.; else
\* a parenthesised interior starting with @. or $. is expression; else an
\* interior with : is range; else the interior * is range with both bounds
\* unset; else index list; the key is the text before the bracket.
C22_StepClassification ==
    ParsedToken =>
        /\ (fin.k = "plain" /\ fin.s = <<"*">>) =>
              fout.r.op = "scan" /\ fout.r.err = NoErr
        /\ (fin.k = "plain" /\ fin.s # <<"*">>) =>
              fout.r = Parsed("key", fin.s, ArgNil, NoErr)
        /\ fin.k \in {"group", "slice"} =>
              LET key == fin.key
                  I == fin.in
              IN  /\ ~IsPanic(fout.r.err)
                  /\ fout.r.err = NoErr =>
                        fout.r.op = OpOf(I) /\ fout.r.key = key
                  /\ BeginsAndEndsWithQuote(I) =>
                        fout.r = Parsed("key", key,
                                        ArgStr(Slice(I, 1, Len(I) - 1)), NoErr)
                  /\ OpOf(I) = "filter" =>
                        (fout.r.err = NoErr <=> RootedClause(InParens(I)))
                  /\ OpOf(I) = "expression" =>
                        fout.r = Parsed("expression", key,
                                        ArgStr(InParens(I)), NoErr)
                  /\ I = <<"*">> =>
                        fout.r = Parsed("range", key,
                                        ArgRange(OptNil, OptNil), NoErr)

IsInteger(t) == Atoi(t).ok
BoundOf(t) == IF t = <<>> THEN OptNil ELSE OptInt(Atoi(t).n)

\* C23: for the interior l:r, when a side, trimmed of spaces, is neither
\* empty nor a signed integer, parse_token and Compile return an error;
\* otherwise an empty side is an unset bound and an integer side is that
\* integer.
C23_SliceBoundParsing ==
    (fout.done /\ fin.k = "slice") =>
                LET tl == Trim(fin.l)
                    tr == Trim(fin.r)
                    bad == \/ tl # <<>> /\ ~IsInteger(tl)
                           \/ tr # <<>> /\ ~IsInteger(tr)
                IN  IF bad
                    THEN IF ParsedToken THEN fout.r.err.k = "error"
                         ELSE ~fout.r.ok /\ fout.r.err.k = "error"
                    ELSE IF ParsedToken
                    THEN fout.r = Parsed("range", fin.key,
                                         ArgRange(BoundOf(tl), BoundOf(tr)), NoErr)
                    ELSE /\ fout.r.ok
                         /\ fout.r.steps =
                                <<Step("range", fin.key,
                                       ArgRange(BoundOf(tl), BoundOf(tr)))>>

Tokenized == fout.done /\ fout.fn = "tokenize"

\* the number of runs of two or more dots of q from position i on, outside
\* bracket groups; run is the length of the run of dots that ends before i
RECURSIVE DotRuns(_, _, _, _)
DotRuns(q, i, inGroup, run) ==
    IF i > Len(q) THEN 0
    ELSE IF inGroup THEN DotRuns(q, i + 1, q[i] # "]", 0)
    ELSE IF q[i] = "." THEN (IF run = 1 THEN 1 ELSE 0) + DotRuns(q, i + 1, FALSE, run + 1)
    ELSE DotRuns(q, i + 1, q[i] = "[", 0)

\* the names of a path text of dots and letters, with a * before each name
\* that follows a run of two or more dots
RECURSIVE NamesAndStars(_, _, _, _)
NamesAndStars(q, i, run, name) ==
    IF i > Len(q) THEN (IF name = <<>> THEN <<>> ELSE <<name>>)
    ELSE IF q[i] = "."
    THEN (IF name = <<>> THEN <<>> ELSE <<name>>) \o NamesAndStars(q, i + 1, run + 1, <<>>)
    ELSE (IF run >= 2 THEN <<<<"*">>>> ELSE <<>>)
             \o NamesAndStars(q, i + 1, 0, Append(name, q[i]))

Stars(tokens) == Len(SelectSeq(tokens, LAMBDA t : t = <<"*">>))
OnlyDotsAndLetters(q) == \A i \in 2..Len(q) : q[i] \in {".", "a"}

\* C24: every run of two or more dots outside brackets gives exactly one *
\* token, placed before the token that follows the run, and the token list
\* of tokenize never has two adjacent * tokens.
C24_WildcardInsertion ==
    (Tokenized /\ fin.k = "query") =>
        /\ fout.r.err = NoErr
        /\ ~Contains(fin.s, "*") => Stars(fout.r.tokens) = DotRuns(fin.s, 2, FALSE, 0)
        /\ (OnlyDotsAndLetters(fin.s) /\ fin.s[Len(fin.s)] # ".") =>
              fout.r.tokens = <<<<"$">>>> \o NamesAndStars(fin.s, 2, 0, <<>>)
        /\ \A i \in 1..(Len(fout.r.tokens) - 1) :
              ~(fout.r.tokens[i] = <<"*">> /\ fout.r.tokens[i + 1] = <<"*">>)

-----------------------------------------------------------------------------
(* SpecCmp: cmpAny on two scalar values and an operator.                   *)

MaxNumLen == 2

NumChars == {"0", "1", "8", "a", "."}
CmpTexts == UNION {[1..n -> NumChars] : n \in 0..MaxNumLen}
CmpValues ==
    {StrV(t) : t \in CmpTexts}
        \cup {IntV(n) : n \in {-1, 0, 1, 8, 10, 20}}
        \cup {FloatV(8), Nil, StrV(<<"1", "0", "0">>), StrV(<<"0", "1", "0">>)}
CmpOps == Ops \cup {<<"=", "~">>, <<"!", "=">>}

InitCmp ==
    /\ fin \in [a : CmpValues, b : CmpValues, op : CmpOps]
    /\ fout = NotRun
    /\ heap = <<>> /\ root = Unused /\ path = <<>> /\ compiled = NotRun
    /\ last = Unused /\ nops = 0
    /\ cpc = Unused /\ ccur = Unused /\ cres = Unused

\* res, err := cmpAny(obj1, obj2, op)
DoCmpAny ==
    /\ ~fout.done
    /\ fout' = [done |-> TRUE, r |-> cmpAny(heap, fin.a, fin.b, fin.op)]
    /\ UNCHANGED <<fin, heap, root, path, compiled, last, nops, cpc, ccur, cres>>

NextCmp == DoCmpAny

SpecCmp == InitCmp /\ [][NextCmp]_vars

\* a text that parses as a number: digits with at most one point
ParsesAsNumber(t) ==
    /\ \A i \in 1..Len(t) : IsDigit(t[i]) \/ t[i] = "."
    /\ Len(SelectSeq(t, IsDigit)) >= 1
    /\ Len(SelectSeq(t, LAMBDA c : c = ".")) <= 1
Numeric(v) ==
    v.t \in {"int", "float64"} \/ (v.t = "string" /\ ParsesAsNumber(v.s))

\* the number a numeric value stands for, as num / 10^scale, read in base 10
NumberOf(v) ==
    IF v.t \in {"int", "float64"} THEN [num |-> v.n, scale |-> 0]
    ELSE [num |-> DecVal(SelectSeq(v.s, IsDigit)),
          scale |-> IF Contains(v.s, ".") THEN Len(v.s) - Index(v.s, ".") - 1 ELSE 0]

Order(lt, eq) == IF lt THEN -1 ELSE IF eq THEN 0 ELSE 1
NumericOrder(a, b) ==
    LET x == NumberOf(a).num * Pow10(NumberOf(b).scale)
        y == NumberOf(b).num * Pow10(NumberOf(a).scale)
    IN  Order(x < y, x = y)
TextOrder(a, b) ==
    Order(StrLess(FormatV(heap, a), FormatV(heap, b)),
          FormatV(heap, a) = FormatV(heap, b))

\* C26: for the operators ==, <, <=, >= and > cmpAny is the comparison of the
\* two numbers when both values are numeric (numbers, or strings that parse
\* as numbers) and the comparison of the two renderings as strings otherwise;
\* for any other operator it returns an error and false.
C26_Comparator ==
    fout.done =>
        IF fin.op \in Ops
        THEN /\ fout.r.e = NoErr
             /\ fout.r.b = Holds(fin.op,
                                 IF Numeric(fin.a) /\ Numeric(fin.b)
                                 THEN NumericOrder(fin.a, fin.b)
                                 ELSE TextOrder(fin.a, fin.b))
        ELSE fout.r.e.k = "error" /\ fout.r.b = FALSE

=============================================================================
